---------------------------- MODULE Spec2Model ----------------------------
(***************************************************************************)
(* ether-packet: zero-copy overlays of Ethernet / VLAN / IPv4 / IPv6       *)
(* headers on raw byte buffers.                                            *)
(*                                                                         *)
(* Representation used throughout:                                         *)
(*   - a byte is a number in 0..255, a byte array is a sequence of bytes   *)
(*     (Rust index k is TLA+ index k+1);                                   *)
(*   - an unsigned integer of any width (u8 .. u64) is the set of the      *)
(*     positions of its one-bits, position 0 being the least significant   *)
(*     bit.  TLC's own integers are 32-bit, so u32 and u64 values cannot   *)
(*     be TLC numbers; Val turns a word below 2^31 into a number.          *)
(***************************************************************************)
EXTENDS Integers, Sequences, FiniteSets, TLC

VARIABLES
    host,       \* target_endian of the build: "little" or "big"
    storage,    \* the bytes of a BitfieldUnit<[u8; N]>
    bfop,       \* the last BitfieldUnit call: arguments, state before, outcome
    num,        \* a wrapper U16 / U32 / U64: [ty, octets], or a NetEndian: [ty, size, inner]
    cvop,       \* the last wrapper call: arguments and result
    frame,      \* a raw 14-byte buffer handed over by the caller
    ethhdr,     \* the EthHdr overlaid on frame
    ethop,      \* the last EthHdr / EtherType call: arguments and result
    buf,        \* caller-owned bytes a VlanHdr / Ipv4Hdr / Ipv6Hdr / ... overlays
    view,       \* the header type buf is viewed as
    hop,        \* the last header accessor call: arguments, bytes before, result
    wr          \* bytes at overlay time and the last argument of each setter / address write

vars == <<host, storage, bfop, num, cvop, frame, ethhdr, ethop, buf, view, hop, wr>>

---------------------------------------------------------------------------
(* Bounds of the model *)

\* how many of ByteSamples the BitfieldUnit backing bytes are drawn from
NumStorageSamples == 2
\* how many of ByteSamples wrapper and frame bytes are drawn from
NumByteSamples == 3

ByteSamples == <<\hA5, \h3C, \hFF, \h00, \h01, \h80>>

StorageBytes == {ByteSamples[i] : i \in 1..NumStorageSamples}
SampleBytes == {ByteSamples[i] : i \in 1..NumByteSamples}

Hosts == {"little", "big"}

---------------------------------------------------------------------------
(* Unsigned integers as sets of bit positions *)

Pow2(n) == 2 ^ n

\* the bits of the number b (b < 2^31), as a word
Bits(b) == {j \in 0..30 : (b \div Pow2(j)) % 2 = 1}

RECURSIVE SumPow2(_)
SumPow2(w) ==
    IF w = {} THEN 0
    ELSE LET j == CHOOSE k \in w : TRUE IN Pow2(j) + SumPow2(w \ {j})

\* the number a word stands for (the word must lie below 2^31)
Val(w) == SumPow2(w)

\* w >> s, w << s, w mod 2^n
Shr(w, s) == {j - s : j \in {k \in w : k >= s}}
Shl(w, s) == {j + s : j \in w}
Low(w, n) == {j \in w : j < n}

---------------------------------------------------------------------------
(* BitfieldUnit<[u8; N]>: bit-range access over N backing bytes.           *)
(* crate::bitfield is imported by eth.rs, ip/v4.rs and ip/v6.rs; the       *)
(* operators below follow sections 3, 4.1 and 7 of the specification.      *)

\* the backing sizes the headers instantiate: [u8; 1], [u8; 2], [u8; 4]
BitfieldSizes == {1, 2, 4}

\* bit_width is at most 64: the accessors exchange u64 values
MaxBitWidth == 64

NoPanic == FALSE
Panicked == TRUE

\* the bit range [start, start + width) lies inside the backing bytes
in_bounds(s, start, width) == start + width <= 8 * Len(s)

\* big-endian bit numbering inside a byte: a slip get_bit_at must not make
get_bit_at_msb_first(s, index) ==
    LET byte_index == index \div 8
        bit_in_byte == 7 - (index % 8)
        byte == s[byte_index + 1]
    IN  (byte \div Pow2(bit_in_byte)) % 2 = 1

\* backing bit `index`: byte_index = index / 8, bit_in_byte = index % 8,
\* bit 0 the least significant bit of byte 0
get_bit_at(s, index) ==
    LET byte_index == index \div 8
        bit_in_byte == index % 8
        byte == s[byte_index + 1]
    IN  (byte \div Pow2(bit_in_byte)) % 2 = 1

\* a write that stores the mask instead of merging it into the byte
set_bit_at_overwriting(s, index, val) ==
    LET byte_index == index \div 8
        mask == Pow2(index % 8)
    IN  [s EXCEPT ![byte_index + 1] = IF val THEN mask ELSE 0]

\* read-modify-write of one backing bit
set_bit_at(s, index, val) ==
    LET byte_index == index \div 8
        mask == Pow2(index % 8)
        byte == s[byte_index + 1]
        cleared == IF (byte \div mask) % 2 = 1 THEN byte - mask ELSE byte
    IN  [s EXCEPT ![byte_index + 1] = IF val THEN cleared + mask ELSE cleared]

\* the loop of set: bits i .. width-1 of value go to start+i .. start+width-1
RECURSIVE set_bits(_, _, _, _, _)
set_bits(s, start, width, value, i) ==
    IF i >= width THEN s
    ELSE set_bits(set_bit_at(s, start + i, i \in value), start, width, value, i + 1)

\* a get that reads what fits and drops the rest of the range
BitfieldUnit_get_truncating(s, start, width) ==
    [panic |-> NoPanic,
     val |-> {i \in 0..(width - 1) :
                  start + i < 8 * Len(s) /\ get_bit_at(s, start + i)}]

\* a get that assembles the bits high-to-low
BitfieldUnit_get_reversed(s, start, width) ==
    IF ~in_bounds(s, start, width) THEN [panic |-> Panicked, val |-> {}]
    ELSE [panic |-> NoPanic,
          val |-> {width - 1 - i : i \in {k \in 0..(width - 1) : get_bit_at(s, start + k)}}]

\* get(start_bit, bit_width) -> u64
BitfieldUnit_get(s, start, width) ==
    IF ~in_bounds(s, start, width) THEN [panic |-> Panicked, val |-> {}]
    ELSE [panic |-> NoPanic,
          val |-> {i \in 0..(width - 1) : get_bit_at(s, start + i)}]

\* set(start_bit, bit_width, value): the new backing bytes
BitfieldUnit_set(s, start, width, value) ==
    IF ~in_bounds(s, start, width) THEN [panic |-> Panicked, storage |-> s]
    ELSE [panic |-> NoPanic, storage |-> set_bits(s, start, width, value, 0)]

\* get_bit(index) -> bool
BitfieldUnit_get_bit(s, index) ==
    IF ~in_bounds(s, index, 1) THEN [panic |-> Panicked, bit |-> FALSE]
    ELSE [panic |-> NoPanic, bit |-> get_bit_at(s, index)]

\* BitfieldUnit::new(storage)
BitfieldUnit_new(bytes) == bytes

\* u64 arguments handed to set: all ones, zero, and two mixed patterns
ValueSamples ==
    {0..63, {}, {j \in 0..63 : j % 2 = 0}, {j \in 0..63 : j % 3 = 1}}

Storages == UNION {[1..n -> StorageBytes] : n \in BitfieldSizes}

NoBfOp ==
    [op |-> "none", start |-> 0, width |-> 0, value |-> {}, before |-> <<>>,
     panic |-> NoPanic, val |-> {}, bit |-> FALSE]

\* a call of get(start, width) on the unit
BfGet ==
    /\ bfop.op = "none"
    /\ \E start \in 0..(8 * Len(storage)), width \in 1..MaxBitWidth :
           LET r == BitfieldUnit_get(storage, start, width)
           IN  bfop' = [NoBfOp EXCEPT !.op = "get", !.start = start,
                                      !.width = width, !.before = storage,
                                      !.panic = r.panic, !.val = r.val]
    /\ UNCHANGED <<host, storage, num, cvop, frame, ethhdr, ethop>>
    /\ UNCHANGED <<buf, view, hop, wr>>

\* a call of set(start, width, value) on the unit
BfSet ==
    /\ bfop.op = "none"
    /\ \E start \in 0..(8 * Len(storage)), width \in 1..MaxBitWidth,
          value \in ValueSamples :
           LET r == BitfieldUnit_set(storage, start, width, value)
           IN  /\ storage' = r.storage
               /\ bfop' = [NoBfOp EXCEPT !.op = "set", !.start = start,
                                         !.width = width, !.value = value,
                                         !.before = storage, !.panic = r.panic]
    /\ UNCHANGED <<host, num, cvop, frame, ethhdr, ethop>>
    /\ UNCHANGED <<buf, view, hop, wr>>

\* a call of get_bit(index) on the unit
BfGetBit ==
    /\ bfop.op = "none"
    /\ \E index \in 0..(8 * Len(storage)) :
           LET r == BitfieldUnit_get_bit(storage, index)
           IN  bfop' = [NoBfOp EXCEPT !.op = "get_bit", !.start = index,
                                      !.width = 1, !.before = storage,
                                      !.panic = r.panic, !.bit = r.bit]
    /\ UNCHANGED <<host, storage, num, cvop, frame, ethhdr, ethop>>
    /\ UNCHANGED <<buf, view, hop, wr>>

NoNum == [ty |-> "none", octets |-> <<>>]
NoCvOp == [op |-> "none", ty |-> "none", arg |-> <<>>, bits |-> {}, res |-> <<>>]
NoEthHdr == [dst_addr |-> <<>>, src_addr |-> <<>>, ether_type |-> NoNum]
NoEthOp == [op |-> "none", hdr |-> "none", code |-> {}, res |-> "none"]
NoHdrOp == [op |-> "none", arg |-> <<>>, before |-> <<>>, res |-> "none"]
NoWrites ==
    [orig |-> <<>>, vid |-> <<>>, cfi |-> <<>>, pcp |-> <<>>,
     src_addr |-> <<>>, dst_addr |-> <<>>]

InitBitfield ==
    /\ host = "little"
    /\ storage \in Storages
    /\ bfop = NoBfOp
    /\ num = NoNum
    /\ cvop = NoCvOp
    /\ frame = <<>>
    /\ ethhdr = NoEthHdr
    /\ ethop = NoEthOp
    /\ buf = <<>>
    /\ view = "none"
    /\ hop = NoHdrOp
    /\ wr = NoWrites

NextBitfield == BfGet \/ BfSet \/ BfGetBit

SpecBitfield == InitBitfield /\ [][NextBitfield]_vars

\* backing bit idx of the byte array s, read off the byte's binary digits
BackingBit(s, idx) == (idx % 8) \in Bits(s[(idx \div 8) + 1])

\* the last call was an in-range set / get
SetDone == bfop.op = "set" /\ ~bfop.panic
GetDone == bfop.op = "get" /\ ~bfop.panic

\* C1: after an in-range set(p, w, v), get(p, w) returns v mod 2^w, for each
\* backing size 1, 2, 4, every start and width that fit, every initial
\* content and every value.
C1_SetGetRoundTrip ==
    SetDone =>
        BitfieldUnit_get(storage, bfop.start, bfop.width)
            = [panic |-> NoPanic, val |-> Low(bfop.value, bfop.width)]

\* a set of 20 bits across three bytes of a 4-byte unit, of a value with
\* one-bits above bit 19, that changed the backing bytes
C1_Witness ==
    /\ SetDone
    /\ Len(storage) = 4 /\ bfop.start = 3 /\ bfop.width = 20
    /\ bfop.value = 0..63
    /\ storage # bfop.before

\* C2: an in-range set(p, w, v) changes no backing bit outside [p, p+w), also
\* when v >= 2^w: every bit below p or at or above p+w keeps its value, and
\* the unit keeps its size.
C2_SetFrame ==
    SetDone =>
        /\ Len(storage) = Len(bfop.before)
        /\ \A idx \in 0..(8 * Len(storage) - 1) :
               (idx < bfop.start \/ idx >= bfop.start + bfop.width)
                   => (BackingBit(storage, idx) <=> BackingBit(bfop.before, idx))

\* a 4-bit set in the middle of a byte, of the all-ones value, whose
\* neighbouring bits hold both zeros and ones
C2_Witness ==
    /\ SetDone
    /\ Len(storage) = 2 /\ bfop.start = 2 /\ bfop.width = 4
    /\ bfop.value = 0..63
    /\ bfop.before[1] = ByteSamples[1]
    /\ storage[1] # bfop.before[1]

---------------------------------------------------------------------------
(* Endian-safe integer wrappers U16 / U32 / U64 (types.rs).                *)
(* The wrappers call uN::from_be_bytes and uN::to_be_bytes of core, which  *)
(* reinterpret the bytes in the target's native order and swap them on a   *)
(* little-endian target; h is the target's endianness.                     *)

\* uN::from_ne_bytes: the in-memory bytes read in the target's order
from_ne_bytes(bytes, h) ==
    LET n == Len(bytes)
    IN  UNION {Shl(Bits(bytes[k + 1]),
                   8 * (IF h = "little" THEN k ELSE n - 1 - k)) : k \in 0..(n - 1)}

\* uN::to_ne_bytes: the in-memory bytes of an n-byte integer
to_ne_bytes(x, n, h) ==
    [i \in 1..n |->
        Val(Low(Shr(x, 8 * (IF h = "little" THEN i - 1 ELSE n - i)), 8))]

\* uN::swap_bytes of an n-byte integer
swap_bytes(x, n) ==
    UNION {Shl(Low(Shr(x, 8 * k), 8), 8 * (n - 1 - k)) : k \in 0..(n - 1)}

\* a from_be / to_be that never swaps
from_be_no_swap(x, n, h) == x

\* uN::from_be and uN::to_be: a no-op on a big-endian target, else a swap
from_be(x, n, h) == IF h = "big" THEN x ELSE swap_bytes(x, n)
to_be(x, n, h) == IF h = "big" THEN x ELSE swap_bytes(x, n)

\* uN::from_be_bytes and uN::to_be_bytes
from_be_bytes(bytes, h) == from_be(from_ne_bytes(bytes, h), Len(bytes), h)
to_be_bytes(x, n, h) == to_ne_bytes(to_be(x, n, h), n, h)

U16_new(a, b) == [ty |-> "U16", octets |-> <<a, b>>]
U16_to_bits(self, h) == from_be_bytes(self.octets, h)
U16_from_bits(bits, h) == [ty |-> "U16", octets |-> to_be_bytes(bits, 2, h)]
U16_octets(self) == self.octets

\* a constructor that repeats its third byte
U32_new_repeating(a, b, c, d) == [ty |-> "U32", octets |-> <<a, b, c, c>>]

U32_new(a, b, c, d) == [ty |-> "U32", octets |-> <<a, b, c, d>>]
U32_to_bits(self, h) == from_be_bytes(self.octets, h)
U32_from_bits(bits, h) == [ty |-> "U32", octets |-> to_be_bytes(bits, 4, h)]
U32_octets(self) == self.octets

\* a from_bits that stores the little-endian encoding
U64_from_bits_le(bits, h) ==
    [ty |-> "U64", octets |-> to_ne_bytes(bits, 8, "little")]

U64_new(a, b, c, d, e, f, g, h) ==
    [ty |-> "U64", octets |-> <<a, b, c, d, e, f, g, g>>]
U64_to_bits(self, h) == from_be_bytes(self.octets, h)
U64_from_bits(bits, h) == [ty |-> "U64", octets |-> to_be_bytes(bits, 8, h)]
U64_octets(self) == self.octets

\* the wrapper types and their sizes in bytes
WrapperSize(ty) == CASE ty = "U16" -> 2 [] ty = "U32" -> 4 [] ty = "U64" -> 8

to_bits(self, h) ==
    CASE self.ty = "U16" -> U16_to_bits(self, h)
      [] self.ty = "U32" -> U32_to_bits(self, h)
      [] self.ty = "U64" -> U64_to_bits(self, h)

from_bits(ty, bits, h) ==
    CASE ty = "U16" -> U16_from_bits(bits, h)
      [] ty = "U32" -> U32_from_bits(bits, h)
      [] ty = "U64" -> U64_from_bits(bits, h)

octets(self) ==
    CASE self.ty = "U16" -> U16_octets(self)
      [] self.ty = "U32" -> U32_octets(self)
      [] self.ty = "U64" -> U64_octets(self)

\* n-byte integers handed to from_bits: every combination of sample bytes
WordSamples(n) ==
    {UNION {Shl(Bits(t[k]), 8 * (k - 1)) : k \in 1..n} : t \in [1..n -> SampleBytes]}

NewU16 ==
    /\ num.ty = "none"
    /\ \E a, b \in SampleBytes :
           /\ num' = U16_new(a, b)
           /\ cvop' = [NoCvOp EXCEPT !.op = "new", !.ty = "U16", !.arg = <<a, b>>]
    /\ UNCHANGED <<host, storage, bfop, frame, ethhdr, ethop>>
    /\ UNCHANGED <<buf, view, hop, wr>>

NewU32 ==
    /\ num.ty = "none"
    /\ \E a, b, c, d \in SampleBytes :
           /\ num' = U32_new(a, b, c, d)
           /\ cvop' = [NoCvOp EXCEPT !.op = "new", !.ty = "U32",
                                     !.arg = <<a, b, c, d>>]
    /\ UNCHANGED <<host, storage, bfop, frame, ethhdr, ethop>>
    /\ UNCHANGED <<buf, view, hop, wr>>

NewU64 ==
    /\ num.ty = "none"
    /\ \E a, b, c, d, e, f, g, h \in SampleBytes :
           /\ num' = U64_new(a, b, c, d, e, f, g, h)
           /\ cvop' = [NoCvOp EXCEPT !.op = "new", !.ty = "U64",
                                     !.arg = <<a, b, c, d, e, f, g, h>>]
    /\ UNCHANGED <<host, storage, bfop, frame, ethhdr, ethop>>
    /\ UNCHANGED <<buf, view, hop, wr>>

\* from_bits (and From<uN>, which calls it) of each wrapper
FromBits ==
    /\ num.ty = "none"
    /\ \E ty \in {"U16", "U32", "U64"} :
           \E bits \in WordSamples(WrapperSize(ty)) :
               /\ num' = from_bits(ty, bits, host)
               /\ cvop' = [NoCvOp EXCEPT !.op = "from_bits", !.ty = ty, !.bits = bits]
    /\ UNCHANGED <<host, storage, bfop, frame, ethhdr, ethop>>
    /\ UNCHANGED <<buf, view, hop, wr>>

ToBits ==
    /\ cvop.op \in {"new", "from_bits"}
    /\ cvop' = [NoCvOp EXCEPT !.op = "to_bits", !.ty = num.ty,
                              !.bits = to_bits(num, host)]
    /\ UNCHANGED <<host, storage, bfop, num, frame, ethhdr, ethop>>
    /\ UNCHANGED <<buf, view, hop, wr>>

Octets ==
    /\ cvop.op \in {"new", "from_bits"}
    /\ cvop' = [NoCvOp EXCEPT !.op = "octets", !.ty = num.ty, !.res = octets(num)]
    /\ UNCHANGED <<host, storage, bfop, num, frame, ethhdr, ethop>>
    /\ UNCHANGED <<buf, view, hop, wr>>

InitEndian ==
    /\ host \in Hosts
    /\ storage = <<>>
    /\ bfop = NoBfOp
    /\ num = NoNum
    /\ cvop = NoCvOp
    /\ frame = <<>>
    /\ ethhdr = NoEthHdr
    /\ ethop = NoEthOp
    /\ buf = <<>>
    /\ view = "none"
    /\ hop = NoHdrOp
    /\ wr = NoWrites

NextEndian == NewU16 \/ NewU32 \/ NewU64 \/ FromBits \/ ToBits \/ Octets

SpecEndian == InitEndian /\ [][NextEndian]_vars

\* the integer whose big-endian bytes are os: the sum of os[i] * 256^(n-1-i)
BigEndianValue(os) ==
    UNION {Shl(Bits(os[i + 1]), 8 * (Len(os) - 1 - i)) : i \in 0..(Len(os) - 1)}

\* byte k of the integer x, k = 0 the least significant: (x div 256^k) mod 256
ByteOf(x, k) == Val(Low(Shr(x, 8 * k), 8))

IsByteArray(os, n) == Len(os) = n /\ \A i \in 1..n : os[i] \in 0..255

\* C5: for each of U16, U32, U64, from_bits(to_bits(x)) has the octets of x
\* for every stored byte pattern x, to_bits(from_bits(b)) = b for every
\* integer b of the width, and both conversions answer for every input with
\* a value of the right size.
C5_WrapperRoundTrip ==
    /\ cvop.op = "to_bits" =>
           /\ cvop.bits \subseteq 0..(8 * WrapperSize(num.ty) - 1)
           /\ octets(from_bits(num.ty, cvop.bits, host)) = octets(num)
    /\ cvop.op = "from_bits" =>
           /\ num.ty = cvop.ty
           /\ IsByteArray(octets(num), WrapperSize(num.ty))
           /\ to_bits(num, host) = cvop.bits

\* to_bits was applied to a U64 whose eight stored bytes are not all equal
\* and read, first to last, differently than last to first
C5_Witness ==
    /\ cvop.op = "to_bits" /\ num.ty = "U64"
    /\ num.octets[1] # num.octets[8]
    /\ num.octets[2] # num.octets[7]
    /\ cvop.bits # {}

\* C6: the stored bytes are big-endian on every target: from_bits(x) stores
\* (x div 256^(n-1-i)) mod 256 as octet i, and to_bits of octets o0..o(n-1) is
\* the sum of o_i * 256^(n-1-i), whatever the target's endianness.
C6_StoredBigEndian ==
    /\ cvop.op = "from_bits" =>
           \A i \in 0..(WrapperSize(cvop.ty) - 1) :
               octets(num)[i + 1] = ByteOf(cvop.bits, WrapperSize(cvop.ty) - 1 - i)
    /\ cvop.op = "to_bits" =>
           /\ cvop.bits = BigEndianValue(octets(num))
           /\ \A t \in Hosts : to_bits(num, t) = cvop.bits

\* from_bits on a little-endian target stored a U64 whose most and least
\* significant bytes differ
C6_Witness ==
    /\ cvop.op = "from_bits" /\ cvop.ty = "U64" /\ host = "little"
    /\ ByteOf(cvop.bits, 7) # ByteOf(cvop.bits, 0)
    /\ num.octets[1] = ByteOf(cvop.bits, 7)

\* C7: U64::new(a, b, c, d, e, f, g, h) stores its eight bytes as given,
\* in order, and to_bits() is their big-endian value.
C7_U64NewCopiesBytes ==
    (cvop.op = "new" /\ cvop.ty = "U64") =>
        /\ octets(num) = cvop.arg
        /\ to_bits(num, host) = BigEndianValue(cvop.arg)

\* C8: U16::new(a, b) and U32::new(a, b, c, d) store their bytes as given, in
\* order: octets() is [a, b] / [a, b, c, d], U16 to_bits() is 256*a + b and
\* U32 to_bits() is ((a*256 + b)*256 + c)*256 + d, given here as its upper
\* half 256*a + b and its lower half 256*c + d.
C8_NewCopiesBytes ==
    /\ (cvop.op = "new" /\ cvop.ty = "U16") =>
           /\ octets(num) = cvop.arg
           /\ Val(to_bits(num, host)) = 256 * cvop.arg[1] + cvop.arg[2]
    /\ (cvop.op = "new" /\ cvop.ty = "U32") =>
           /\ octets(num) = cvop.arg
           /\ to_bits(num, host) \subseteq 0..31
           /\ Val(Shr(to_bits(num, host), 16)) = 256 * cvop.arg[1] + cvop.arg[2]
           /\ Val(Low(to_bits(num, host), 16)) = 256 * cvop.arg[3] + cvop.arg[4]

\* U32::new was called with four bytes of which the last two differ
C8_Witness ==
    /\ cvop.op = "new" /\ cvop.ty = "U32"
    /\ cvop.arg[3] # cvop.arg[4] /\ cvop.arg[1] # cvop.arg[2]
    /\ num.octets[4] = cvop.arg[4]

---------------------------------------------------------------------------
(* EtherType and the Ethernet header overlays (eth.rs) *)

\* enum EtherType
EtherTypes ==
    {"Loop", "Ipv4", "Arp", "WakeOnLan", "CDP", "SRP", "AVTP", "TRILL", "MOP",
     "DECnet", "DECLAT", "RARP", "AppleTalk", "AARP", "VLAN", "SLPP", "VLACP",
     "Ipv6", "MPLSUnicast", "MPLSMulticast", "LACP", "QinQ", "LLDP",
     "FibreChannel", "RoCE", "LoopbackIeee8023"}

\* `e as u16`: the discriminants of the #[repr(u16)] enum
EtherType_as_u16(e) ==
    CASE e = "Loop" -> \h0060
      [] e = "Ipv4" -> \h0800
      [] e = "Arp" -> \h0806
      [] e = "WakeOnLan" -> \h0842
      [] e = "CDP" -> \h2000
      [] e = "SRP" -> \h22EA
      [] e = "AVTP" -> \h22F0
      [] e = "TRILL" -> \h22F3
      [] e = "MOP" -> \h6002
      [] e = "DECnet" -> \h6003
      [] e = "DECLAT" -> \h6004
      [] e = "RARP" -> \h8035
      [] e = "AppleTalk" -> \h809B
      [] e = "AARP" -> \h80F3
      [] e = "VLAN" -> \h8100
      [] e = "SLPP" -> \h8102
      [] e = "VLACP" -> \h8103
      [] e = "Ipv6" -> \h86DD
      [] e = "MPLSUnicast" -> \h8847
      [] e = "MPLSMulticast" -> \h8848
      [] e = "LACP" -> \h8809
      [] e = "QinQ" -> \h88A8
      [] e = "LLDP" -> \h88CC
      [] e = "FibreChannel" -> \h8906
      [] e = "RoCE" -> \h8915
      [] e = "LoopbackIeee8023" -> \h9000

Ok(e) == [ok |-> TRUE, val |-> e]
Err == [ok |-> FALSE, val |-> "()"]
Some(e) == [some |-> TRUE, val |-> e]
None == [some |-> FALSE, val |-> "None"]

\* Result::ok
Result_ok(r) == IF r.ok THEN Some(r.val) ELSE None

\* impl TryFrom<u16> for EtherType; value is a u16
EtherType_try_from_u16(value) ==
    LET v == Val(value)
    IN  CASE v = \h0060 -> Ok("Loop")
          [] v = \h0800 -> Ok("Ipv4")
          [] v = \h0806 -> Ok("Arp")
          [] v = \h0842 -> Ok("WakeOnLan")
          [] v = \h2000 -> Ok("CDP")
          [] v = \h22EA -> Ok("SRP")
          [] v = \h22F0 -> Ok("AVTP")
          [] v = \h22F3 -> Ok("TRILL")
          [] v = \h6002 -> Ok("MOP")
          [] v = \h6003 -> Ok("DECnet")
          [] v = \h6004 -> Ok("DECLAT")
          [] v = \h8035 -> Ok("RARP")
          [] v = \h809B -> Ok("AppleTalk")
          [] v = \h80F3 -> Ok("AARP")
          [] v = \h8100 -> Ok("VLAN")
          [] v = \h8102 -> Ok("SLPP")
          [] v = \h8103 -> Ok("VLACP")
          [] v = \h86DD -> Ok("Ipv6")
          [] v = \h8847 -> Ok("MPLSUnicast")
          [] v = \h8848 -> Ok("MPLSMulticast")
          [] v = \h8809 -> Ok("LACP")
          [] v = \h88A8 -> Ok("QinQ")
          [] v = \h88CC -> Ok("LLDP")
          [] v = \h8906 -> Ok("FibreChannel")
          [] v = \h8915 -> Ok("RoCE")
          [] v = \h9000 -> Ok("LoopbackIeee8023")
          [] OTHER -> Err

\* impl Default for EtherType
EtherType_default == "Ipv4"

\* impl TryFrom<U16> for EtherType
EtherType_try_from_U16(value, h) == EtherType_try_from_u16(U16_to_bits(value, h))

\* EtherType::is_vlan
EtherType_is_vlan(self) == self = "VLAN" \/ self = "QinQ"

\* an ether_type() that falls back on the Default variant
EthHdr_ether_type_or_default(self, h) ==
    LET r == EtherType_try_from_U16(self.ether_type, h)
    IN  Some(IF r.ok THEN r.val ELSE EtherType_default)

\* EthHdr::ether_type, QinQHdr::ether_type, VlanHdr::ether_type
EthHdr_ether_type(self, h) == Result_ok(EtherType_try_from_U16(self.ether_type, h))
QinQHdr_ether_type(self, h) == Result_ok(EtherType_try_from_U16(self.ether_type, h))
VlanHdr_ether_type(self, h) == Result_ok(EtherType_try_from_U16(self.ether_type, h))

\* a layout that puts the source address first
EthHdrFields_src_first ==
    <<[name |-> "src_addr", size |-> 6], [name |-> "dst_addr", size |-> 6],
      [name |-> "ether_type", size |-> 2]>>

\* #[repr(C, packed)] struct EthHdr: the fields in declaration order, with
\* their sizes in bytes
EthHdrFields ==
    <<[name |-> "dst_addr", size |-> 6], [name |-> "src_addr", size |-> 6],
      [name |-> "ether_type", size |-> 2]>>

\* repr(C, packed): a field starts where the one before it ends
RECURSIVE FieldOffset(_, _)
FieldOffset(fields, i) ==
    IF i = 1 THEN 0 ELSE FieldOffset(fields, i - 1) + fields[i - 1].size

\* mem::size_of of a packed struct
SizeOf(fields) == FieldOffset(fields, Len(fields)) + fields[Len(fields)].size

\* the bytes of the field called name in a buffer laid out as fields
FieldBytes(bytes, fields, name) ==
    LET i == CHOOSE k \in 1..Len(fields) : fields[k].name = name
    IN  SubSeq(bytes, FieldOffset(fields, i) + 1,
               FieldOffset(fields, i) + fields[i].size)

\* EthHdr::LEN
EthHdr_LEN == SizeOf(EthHdrFields)

\* mem::transmute::<[u8; EthHdr::LEN], EthHdr>
EthHdr_transmute(bytes) ==
    [dst_addr |-> FieldBytes(bytes, EthHdrFields, "dst_addr"),
     src_addr |-> FieldBytes(bytes, EthHdrFields, "src_addr"),
     ether_type |-> [ty |-> "U16",
                     octets |-> FieldBytes(bytes, EthHdrFields, "ether_type")]]

\* data_stream of test::validate_etherheader
TestFrame ==
    <<\hFF, \hFF, \hFF, \hFF, \hFF, \hFF,
      \h00, \h11, \h22, \h33, \h44, \h55,
      \h08, \h00>>

\* n bytes that differ from their neighbours, starting at a
Ramp(a, n) == [i \in 1..n |-> (a + 17 * (i - 1)) % 256]

\* the buffers a caller hands over: the test's frame, and frames of every
\* combination of sample bytes for the two addresses and the type bytes
Frames ==
    {TestFrame} \cup
    {Ramp(a, 6) \o Ramp(b, 6) \o <<c, d>> : a, b, c, d \in SampleBytes}

\* the header kinds that carry an ether_type field
HeaderKinds == {"EthHdr", "VlanHdr", "QinQHdr"}

ether_type_of(kind, self, h) ==
    CASE kind = "EthHdr" -> EthHdr_ether_type(self, h)
      [] kind = "VlanHdr" -> VlanHdr_ether_type(self, h)
      [] kind = "QinQHdr" -> QinQHdr_ether_type(self, h)

\* a buffer of EthHdr::LEN bytes is reinterpreted as an EthHdr
Overlay ==
    /\ frame # <<>> /\ ethop.op = "none"
    /\ Len(frame) = EthHdr_LEN
    /\ ethhdr' = EthHdr_transmute(frame)
    /\ ethop' = [NoEthOp EXCEPT !.op = "overlay"]
    /\ UNCHANGED <<host, storage, bfop, num, cvop, frame>>
    /\ UNCHANGED <<buf, view, hop, wr>>

\* ether_type() of the overlaid EthHdr
EthEtherType ==
    /\ ethop.op = "overlay"
    /\ ethop' = [NoEthOp EXCEPT !.op = "ether_type", !.hdr = "EthHdr",
                                !.code = U16_to_bits(ethhdr.ether_type, host),
                                !.res = EthHdr_ether_type(ethhdr, host)]
    /\ UNCHANGED <<host, storage, bfop, num, cvop, frame, ethhdr>>
    /\ UNCHANGED <<buf, view, hop, wr>>

\* EtherType::try_from(value) for a u16
TryFrom ==
    /\ frame = <<>> /\ ethop.op = "none"
    /\ \E v \in 0..65535 :
           ethop' = [NoEthOp EXCEPT !.op = "try_from", !.code = Bits(v),
                                    !.res = EtherType_try_from_u16(Bits(v))]
    /\ UNCHANGED <<host, storage, bfop, num, cvop, frame, ethhdr>>
    /\ UNCHANGED <<buf, view, hop, wr>>

\* ether_type() of a header of any kind whose ether_type field holds hi, lo
FieldEtherType ==
    /\ frame = <<>> /\ ethop.op = "none"
    /\ \E kind \in HeaderKinds, hi \in 0..255, lo \in 0..255 :
           LET self == [NoEthHdr EXCEPT !.ether_type = U16_new(hi, lo)]
           IN  /\ ethhdr' = self
               /\ ethop' = [NoEthOp EXCEPT !.op = "ether_type", !.hdr = kind,
                                !.code = U16_to_bits(self.ether_type, host),
                                !.res = ether_type_of(kind, self, host)]
    /\ UNCHANGED <<host, storage, bfop, num, cvop, frame>>
    /\ UNCHANGED <<buf, view, hop, wr>>

InitEth ==
    /\ host \in Hosts
    /\ storage = <<>>
    /\ bfop = NoBfOp
    /\ num = NoNum
    /\ cvop = NoCvOp
    /\ frame \in Frames \cup {<<>>}
    /\ ethhdr = NoEthHdr
    /\ ethop = NoEthOp
    /\ buf = <<>>
    /\ view = "none"
    /\ hop = NoHdrOp
    /\ wr = NoWrites

NextEth == Overlay \/ EthEtherType \/ TryFrom \/ FieldEtherType

SpecEth == InitEth /\ [][NextEth]_vars

\* C9: for every 14-byte buffer B overlaid as EthHdr, dst_addr is B[0..6],
\* src_addr is B[6..12] and ether_type.to_bits() is 256*B[12] + B[13]; the
\* test's bytes FF FF FF FF FF FF 00 11 22 33 44 55 08 00 give dst
\* FF:FF:FF:FF:FF:FF, src 00:11:22:33:44:55 and EtherType Ipv4 (0x0800).
C9_EthOverlayDecoding ==
    ethop.op = "overlay" =>
        /\ Len(frame) = 14
        /\ ethhdr.dst_addr = SubSeq(frame, 1, 6)
        /\ ethhdr.src_addr = SubSeq(frame, 7, 12)
        /\ Val(U16_to_bits(ethhdr.ether_type, host)) = 256 * frame[13] + frame[14]
        /\ frame = <<255, 255, 255, 255, 255, 255, 0, 17, 34, 51, 68, 85, 8, 0>> =>
               /\ ethhdr.dst_addr = <<255, 255, 255, 255, 255, 255>>
               /\ ethhdr.src_addr = <<0, 17, 34, 51, 68, 85>>
               /\ Val(U16_to_bits(ethhdr.ether_type, host)) = 2048
               /\ Val(U16_to_bits(ethhdr.ether_type, host)) = EtherType_as_u16("Ipv4")
               /\ EthHdr_ether_type(ethhdr, host) = Some("Ipv4")

\* the test's frame was overlaid on a little-endian target
C9_Witness ==
    /\ ethop.op = "overlay" /\ host = "little"
    /\ frame = TestFrame
    /\ ethhdr.src_addr = <<0, 17, 34, 51, 68, 85>>

\* the numeric codes of the variants, and the variant of a code
EtherTypeCodes == {EtherType_as_u16(e) : e \in EtherTypes}
VariantOf(v) == CHOOSE e \in EtherTypes : EtherType_as_u16(e) = v

\* try_from(e as u16) is Ok(e) for each of the 26 variants
EveryVariantDecodes ==
    /\ Cardinality(EtherTypes) = 26
    /\ \A e \in EtherTypes : EtherType_try_from_u16(Bits(EtherType_as_u16(e))) = Ok(e)

\* C10: EtherType::try_from(v) is Ok(e) exactly when v is the code of variant
\* e, for each of the 26 variants and every 16-bit v, and Err(()) otherwise;
\* ether_type() of EthHdr, VlanHdr and QinQHdr is Some(e) for the code of e
\* and None for every other code, never the Default variant or another one.
C10_EtherTypeDecodingExact ==
    /\ EveryVariantDecodes
    /\ ethop.op = "try_from" =>
           ethop.res = IF Val(ethop.code) \in EtherTypeCodes
                       THEN Ok(VariantOf(Val(ethop.code))) ELSE Err
    /\ ethop.op = "ether_type" =>
           /\ ethop.code = BigEndianValue(ethhdr.ether_type.octets)
           /\ ethop.res = IF Val(ethop.code) \in EtherTypeCodes
                          THEN Some(VariantOf(Val(ethop.code))) ELSE None

\* ether_type() of an EthHdr whose type field holds 0x0801, one above the
\* code of Ipv4, returned None
C10_Witness ==
    /\ ethop.op = "ether_type" /\ ethop.hdr = "EthHdr"
    /\ ethhdr.ether_type.octets = <<8, 1>>
    /\ ethop.res = None

---------------------------------------------------------------------------
(* Header overlays: #[repr(C, packed)] structs viewed over caller-owned    *)
(* bytes (eth.rs, ip/v4.rs, ip/v6.rs) and enum IpProto (ip/mod.rs).        *)

\* enum IpProto
IpProtos ==
    {"HopOpt", "Icmp", "Igmp", "Ggp", "Ipv4", "Stream", "Tcp", "Cbt",
     "Egp", "Igp", "BbnRccMon", "NvpII", "Pup", "Argus", "Emcon",
     "Xnet", "Chaos", "Udp", "Mux", "DcnMeas", "Hmp", "Prm", "Idp",
     "Trunk1", "Trunk2", "Leaf1", "Leaf2", "Rdp", "Irtp", "Tp4",
     "Netblt", "MfeNsp", "MeritInp", "Dccp", "ThirdPartyConnect",
     "Idpr", "Xtp", "Ddp", "IdprCmtp", "TpPlusPlus", "Il", "Ipv6",
     "Sdrp", "Ipv6Route", "Ipv6Frag", "Idrp", "Rsvp", "Gre", "Dsr",
     "Bna", "Esp", "Ah", "Inlsp", "Swipe", "Narp", "Mobile", "Tlsp",
     "Skip", "Ipv6Icmp", "Ipv6NoNxt", "Ipv6Opts", "AnyHostInternal",
     "Cftp", "AnyLocalNetwork", "SatExpak", "Kryptolan", "Rvd", "Ippc",
     "AnyDistributedFileSystem", "SatMon", "Visa", "Ipcv", "Cpnx",
     "Cphb", "Wsn", "Pvp", "BrSatMon", "SunNd", "WbMon", "WbExpak",
     "IsoIp", "Vmtp", "SecureVmtp", "Vines", "Ttp", "NsfnetIgp", "Dgp",
     "Tcf", "Eigrp", "Ospfigp", "SpriteRpc", "Larp", "Mtp", "Ax25",
     "Ipip", "Micp", "SccSp", "Etherip", "Encap",
     "AnyPrivateEncryptionScheme", "Gmtp", "Ifmp", "Pnni", "Pim",
     "Aris", "Scps", "Qnx", "ActiveNetworks", "IpComp", "Snp",
     "CompaqPeer", "IpxInIp", "Vrrp", "Pgm", "AnyZeroHopProtocol",
     "L2tp", "Ddx", "Iatp", "Stp", "Srp", "Uti", "Smp", "Sm", "Ptp",
     "IsisOverIpv4", "Fire", "Crtp", "Crudp", "Sscopmce", "Iplt", "Sps",
     "Pipe", "Sctp", "Fc", "RsvpE2eIgnore", "MobilityHeader", "UdpLite",
     "Mpls", "Manet", "Hip", "Shim6", "Wesp", "Rohc", "EthernetInIpv4",
     "Aggfrag", "Test1", "Test2", "Reserved"}

\* `e as u8`: the discriminants of the #[repr(u8)] enum
IpProto_as_u8(e) ==
    CASE e = "HopOpt" -> 0
      [] e = "Icmp" -> 1
      [] e = "Igmp" -> 2
      [] e = "Ggp" -> 3
      [] e = "Ipv4" -> 4
      [] e = "Stream" -> 5
      [] e = "Tcp" -> 6
      [] e = "Cbt" -> 7
      [] e = "Egp" -> 8
      [] e = "Igp" -> 9
      [] e = "BbnRccMon" -> 10
      [] e = "NvpII" -> 11
      [] e = "Pup" -> 12
      [] e = "Argus" -> 13
      [] e = "Emcon" -> 14
      [] e = "Xnet" -> 15
      [] e = "Chaos" -> 16
      [] e = "Udp" -> 17
      [] e = "Mux" -> 18
      [] e = "DcnMeas" -> 19
      [] e = "Hmp" -> 20
      [] e = "Prm" -> 21
      [] e = "Idp" -> 22
      [] e = "Trunk1" -> 23
      [] e = "Trunk2" -> 24
      [] e = "Leaf1" -> 25
      [] e = "Leaf2" -> 26
      [] e = "Rdp" -> 27
      [] e = "Irtp" -> 28
      [] e = "Tp4" -> 29
      [] e = "Netblt" -> 30
      [] e = "MfeNsp" -> 31
      [] e = "MeritInp" -> 32
      [] e = "Dccp" -> 33
      [] e = "ThirdPartyConnect" -> 34
      [] e = "Idpr" -> 35
      [] e = "Xtp" -> 36
      [] e = "Ddp" -> 37
      [] e = "IdprCmtp" -> 38
      [] e = "TpPlusPlus" -> 39
      [] e = "Il" -> 40
      [] e = "Ipv6" -> 41
      [] e = "Sdrp" -> 42
      [] e = "Ipv6Route" -> 43
      [] e = "Ipv6Frag" -> 44
      [] e = "Idrp" -> 45
      [] e = "Rsvp" -> 46
      [] e = "Gre" -> 47
      [] e = "Dsr" -> 48
      [] e = "Bna" -> 49
      [] e = "Esp" -> 50
      [] e = "Ah" -> 51
      [] e = "Inlsp" -> 52
      [] e = "Swipe" -> 53
      [] e = "Narp" -> 54
      [] e = "Mobile" -> 55
      [] e = "Tlsp" -> 56
      [] e = "Skip" -> 57
      [] e = "Ipv6Icmp" -> 58
      [] e = "Ipv6NoNxt" -> 59
      [] e = "Ipv6Opts" -> 60
      [] e = "AnyHostInternal" -> 61
      [] e = "Cftp" -> 62
      [] e = "AnyLocalNetwork" -> 63
      [] e = "SatExpak" -> 64
      [] e = "Kryptolan" -> 65
      [] e = "Rvd" -> 66
      [] e = "Ippc" -> 67
      [] e = "AnyDistributedFileSystem" -> 68
      [] e = "SatMon" -> 69
      [] e = "Visa" -> 70
      [] e = "Ipcv" -> 71
      [] e = "Cpnx" -> 72
      [] e = "Cphb" -> 73
      [] e = "Wsn" -> 74
      [] e = "Pvp" -> 75
      [] e = "BrSatMon" -> 76
      [] e = "SunNd" -> 77
      [] e = "WbMon" -> 78
      [] e = "WbExpak" -> 79
      [] e = "IsoIp" -> 80
      [] e = "Vmtp" -> 81
      [] e = "SecureVmtp" -> 82
      [] e = "Vines" -> 83
      [] e = "Ttp" -> 84
      [] e = "NsfnetIgp" -> 85
      [] e = "Dgp" -> 86
      [] e = "Tcf" -> 87
      [] e = "Eigrp" -> 88
      [] e = "Ospfigp" -> 89
      [] e = "SpriteRpc" -> 90
      [] e = "Larp" -> 91
      [] e = "Mtp" -> 92
      [] e = "Ax25" -> 93
      [] e = "Ipip" -> 94
      [] e = "Micp" -> 95
      [] e = "SccSp" -> 96
      [] e = "Etherip" -> 97
      [] e = "Encap" -> 98
      [] e = "AnyPrivateEncryptionScheme" -> 99
      [] e = "Gmtp" -> 100
      [] e = "Ifmp" -> 101
      [] e = "Pnni" -> 102
      [] e = "Pim" -> 103
      [] e = "Aris" -> 104
      [] e = "Scps" -> 105
      [] e = "Qnx" -> 106
      [] e = "ActiveNetworks" -> 107
      [] e = "IpComp" -> 108
      [] e = "Snp" -> 109
      [] e = "CompaqPeer" -> 110
      [] e = "IpxInIp" -> 111
      [] e = "Vrrp" -> 112
      [] e = "Pgm" -> 113
      [] e = "AnyZeroHopProtocol" -> 114
      [] e = "L2tp" -> 115
      [] e = "Ddx" -> 116
      [] e = "Iatp" -> 117
      [] e = "Stp" -> 118
      [] e = "Srp" -> 119
      [] e = "Uti" -> 120
      [] e = "Smp" -> 121
      [] e = "Sm" -> 122
      [] e = "Ptp" -> 123
      [] e = "IsisOverIpv4" -> 124
      [] e = "Fire" -> 125
      [] e = "Crtp" -> 126
      [] e = "Crudp" -> 127
      [] e = "Sscopmce" -> 128
      [] e = "Iplt" -> 129
      [] e = "Sps" -> 130
      [] e = "Pipe" -> 131
      [] e = "Sctp" -> 132
      [] e = "Fc" -> 133
      [] e = "RsvpE2eIgnore" -> 134
      [] e = "MobilityHeader" -> 135
      [] e = "UdpLite" -> 136
      [] e = "Mpls" -> 137
      [] e = "Manet" -> 138
      [] e = "Hip" -> 139
      [] e = "Shim6" -> 140
      [] e = "Wesp" -> 141
      [] e = "Rohc" -> 142
      [] e = "EthernetInIpv4" -> 143
      [] e = "Aggfrag" -> 144
      [] e = "Test1" -> 253
      [] e = "Test2" -> 254
      [] e = "Reserved" -> 255

\* the discriminants in use, and the variant of a discriminant
IpProtoCodes == {IpProto_as_u8(e) : e \in IpProtos}
IpProtoOfCode(c) == CHOOSE e \in IpProtos : IpProto_as_u8(e) = c

Variant(e) == [kind |-> "variant", val |-> e]
InvalidValue == [kind |-> "invalid", val |-> "no variant"]

\* the values a read of a field of type IpProto can produce from the byte it
\* overlays: the variant with that discriminant; for a byte that is no
\* discriminant the read is undefined behaviour, and the build may treat the
\* value as any variant or carry it along as a value equal to none
IpProto_read(byte) ==
    IF byte \in IpProtoCodes THEN {Variant(IpProtoOfCode(byte))}
    ELSE {Variant(e) : e \in IpProtos} \cup {InvalidValue}

\* a VlanHdr layout with the tag control field ahead of the TPID
VlanHdrFields_tci_first ==
    <<[name |-> "dst_addr", size |-> 6], [name |-> "src_addr", size |-> 6],
      [name |-> "tci", size |-> 2], [name |-> "tpid", size |-> 2],
      [name |-> "ether_type", size |-> 2]>>

\* #[repr(C, packed)] struct VlanHdr
VlanHdrFields ==
    <<[name |-> "dst_addr", size |-> 6], [name |-> "src_addr", size |-> 6],
      [name |-> "tpid", size |-> 2], [name |-> "tci", size |-> 2],
      [name |-> "ether_type", size |-> 2]>>

\* #[repr(C, packed)] struct QinQHdr
QinQHdrFields ==
    <<[name |-> "dst_addr", size |-> 6], [name |-> "src_addr", size |-> 6],
      [name |-> "service_tpid", size |-> 2], [name |-> "etci", size |-> 2],
      [name |-> "tpid", size |-> 2], [name |-> "tci", size |-> 2],
      [name |-> "ether_type", size |-> 2]>>

\* an Ipv4Hdr layout with the destination address ahead of the source
Ipv4HdrFields_dst_first ==
    <<[name |-> "_bitfield_1", size |-> 1], [name |-> "tos", size |-> 1],
      [name |-> "tot_len", size |-> 2], [name |-> "id", size |-> 2],
      [name |-> "frag_off", size |-> 2], [name |-> "ttl", size |-> 1],
      [name |-> "proto", size |-> 1], [name |-> "check", size |-> 2],
      [name |-> "dst_addr", size |-> 4], [name |-> "src_addr", size |-> 4]>>

\* #[repr(C, packed)] struct Ipv4Hdr
Ipv4HdrFields ==
    <<[name |-> "_bitfield_1", size |-> 1], [name |-> "tos", size |-> 1],
      [name |-> "tot_len", size |-> 2], [name |-> "id", size |-> 2],
      [name |-> "frag_off", size |-> 2], [name |-> "ttl", size |-> 1],
      [name |-> "proto", size |-> 1], [name |-> "check", size |-> 2],
      [name |-> "src_addr", size |-> 4], [name |-> "dst_addr", size |-> 4]>>

\* #[repr(C, packed)] struct Ipv6Hdr
Ipv6HdrFields ==
    <<[name |-> "ver_tc_flow_label", size |-> 4],
      [name |-> "payload_len", size |-> 2], [name |-> "next_hdr", size |-> 1],
      [name |-> "hop_limit", size |-> 1], [name |-> "src_addr", size |-> 16],
      [name |-> "dst_addr", size |-> 16]>>

HeaderTypes == {"EthHdr", "VlanHdr", "QinQHdr", "Ipv4Hdr", "Ipv6Hdr"}

FieldsOf(ty) ==
    CASE ty = "EthHdr" -> EthHdrFields
      [] ty = "VlanHdr" -> VlanHdrFields
      [] ty = "QinQHdr" -> QinQHdrFields
      [] ty = "Ipv4Hdr" -> Ipv4HdrFields
      [] ty = "Ipv6Hdr" -> Ipv6HdrFields

\* VlanHdr::LEN, QinQHdr::LEN, Ipv4Hdr::LEN, Ipv6Hdr::LEN
VlanHdr_LEN == SizeOf(VlanHdrFields)
QinQHdr_LEN == SizeOf(QinQHdrFields)
Ipv4Hdr_LEN == SizeOf(Ipv4HdrFields)
Ipv6Hdr_LEN == SizeOf(Ipv6HdrFields)

LenOf(ty) ==
    CASE ty = "EthHdr" -> EthHdr_LEN
      [] ty = "VlanHdr" -> VlanHdr_LEN
      [] ty = "QinQHdr" -> QinQHdr_LEN
      [] ty = "Ipv4Hdr" -> Ipv4Hdr_LEN
      [] ty = "Ipv6Hdr" -> Ipv6Hdr_LEN

\* the struct seen through a reference to the bytes: each field is the bytes
\* at its offset
transmute(fields, bytes) ==
    [n \in {fields[i].name : i \in 1..Len(fields)} |-> FieldBytes(bytes, fields, n)]

\* the bytes of the struct: its fields one after the other
RECURSIVE as_bytes(_, _, _)
as_bytes(fields, self, i) ==
    IF i > Len(fields) THEN <<>>
    ELSE self[fields[i].name] \o as_bytes(fields, self, i + 1)

---------------------------------------------------------------------------
(* impl Ipv4Hdr (ip/v4.rs). self is the struct seen through the overlay;   *)
(* a getter yields [panic, val] or [panic, bit], a setter [panic, self].   *)

\* `x as u8`, `x as u16`, `x as u32` of a u64; `v as u64` of a number
as_u8(w) == Low(w, 8)
as_u16(w) == Low(w, 16)
as_u32(w) == Low(w, 32)
as_u64(v) == Bits(v)

\* ihl(): self._bitfield_1.get(0, 4) as u8
Ipv4Hdr_ihl(self) ==
    LET r == BitfieldUnit_get(self["_bitfield_1"], 0, 4)
    IN  [panic |-> r.panic, val |-> as_u8(r.val)]

\* set_ihl(val): self._bitfield_1.set(0, 4, val as u64)
Ipv4Hdr_set_ihl(self, val) ==
    LET r == BitfieldUnit_set(self["_bitfield_1"], 0, 4, as_u64(val))
    IN  [panic |-> r.panic, self |-> [self EXCEPT !["_bitfield_1"] = r.storage]]

\* version(): self._bitfield_1.get(4, 4) as u8
Ipv4Hdr_version(self) ==
    LET r == BitfieldUnit_get(self["_bitfield_1"], 4, 4)
    IN  [panic |-> r.panic, val |-> as_u8(r.val)]

\* set_version(val): self._bitfield_1.set(4, 4, val as u64)
Ipv4Hdr_set_version(self, val) ==
    LET r == BitfieldUnit_set(self["_bitfield_1"], 4, 4, as_u64(val))
    IN  [panic |-> r.panic, self |-> [self EXCEPT !["_bitfield_1"] = r.storage]]

\* a constructor that takes its arguments for (version, ihl)
Ipv4Hdr_new_bitfield_1_version_first(ihl, version) ==
    LET unit == BitfieldUnit_new(<<0>>)
        r1 == BitfieldUnit_set(unit, 0, 4, as_u64(version))
        r2 == BitfieldUnit_set(r1.storage, 4, 4, as_u64(ihl))
    IN  [panic |-> r1.panic \/ r2.panic, storage |-> r2.storage]

\* new_bitfield_1(ihl, version): a default unit, then set(0, 4, ihl) and
\* set(4, 4, version)
Ipv4Hdr_new_bitfield_1(ihl, version) ==
    LET unit == BitfieldUnit_new(<<0>>)
        r1 == BitfieldUnit_set(unit, 0, 4, as_u64(ihl))
        r2 == BitfieldUnit_set(r1.storage, 4, 4, as_u64(version))
    IN  [panic |-> r1.panic \/ r2.panic, storage |-> r2.storage]

\* hdrlen(): self.ihl() as usize * 4
Ipv4Hdr_hdrlen(self) ==
    LET r == Ipv4Hdr_ihl(self)
    IN  [panic |-> r.panic, val |-> Shl(r.val, 2)]

\* dont_fragment(): self.frag_off.get_bit(15)
Ipv4Hdr_dont_fragment(self) == BitfieldUnit_get_bit(self.frag_off, 15)

\* more_fragments(): self.frag_off.get_bit(14)
Ipv4Hdr_more_fragments(self) == BitfieldUnit_get_bit(self.frag_off, 14)

\* is_fragment(): self.frag_off.get(0, 14) > 0
Ipv4Hdr_is_fragment(self) ==
    LET r == BitfieldUnit_get(self.frag_off, 0, 14)
    IN  [panic |-> r.panic, bit |-> r.val # {}]

\* is_not_first_fragment(): self.frag_off.get(0, 13) > 0
Ipv4Hdr_is_not_first_fragment(self) ==
    LET r == BitfieldUnit_get(self.frag_off, 0, 13)
    IN  [panic |-> r.panic, bit |-> r.val # {}]

\* a has_l4_header that forgets the negation
Ipv4Hdr_has_l4_header_not_negated(self) == Ipv4Hdr_is_not_first_fragment(self)

\* has_l4_header(): !self.is_not_first_fragment()
Ipv4Hdr_has_l4_header(self) ==
    LET r == Ipv4Hdr_is_not_first_fragment(self)
    IN  [panic |-> r.panic, bit |-> ~r.bit]

\* a read of the field self.proto
Ipv4Hdr_proto(self) == IpProto_read(self.proto[1])

---------------------------------------------------------------------------
(* impl Ipv6Hdr (ip/v6.rs) *)

\* version(): self.ver_tc_flow_label.get(28, 4) as u8
Ipv6Hdr_version(self) ==
    LET r == BitfieldUnit_get(self.ver_tc_flow_label, 28, 4)
    IN  [panic |-> r.panic, val |-> as_u8(r.val)]

\* set_version(val): self.ver_tc_flow_label.set(28, 4, val as u64)
Ipv6Hdr_set_version(self, val) ==
    LET r == BitfieldUnit_set(self.ver_tc_flow_label, 28, 4, as_u64(val))
    IN  [panic |-> r.panic, self |-> [self EXCEPT !.ver_tc_flow_label = r.storage]]

\* tc(): self.ver_tc_flow_label.get(20, 8) as u8
Ipv6Hdr_tc(self) ==
    LET r == BitfieldUnit_get(self.ver_tc_flow_label, 20, 8)
    IN  [panic |-> r.panic, val |-> as_u8(r.val)]

\* set_tc(val): self.ver_tc_flow_label.set(20, 8, val as u64)
Ipv6Hdr_set_tc(self, val) ==
    LET r == BitfieldUnit_set(self.ver_tc_flow_label, 20, 8, as_u64(val))
    IN  [panic |-> r.panic, self |-> [self EXCEPT !.ver_tc_flow_label = r.storage]]

\* flow_label(): self.ver_tc_flow_label.get(0, 20) as u32
Ipv6Hdr_flow_label(self) ==
    LET r == BitfieldUnit_get(self.ver_tc_flow_label, 0, 20)
    IN  [panic |-> r.panic, val |-> as_u32(r.val)]

\* set_flow_table(val): self.ver_tc_flow_label.set(0, 20, val as u64)
Ipv6Hdr_set_flow_table(self, val) ==
    LET r == BitfieldUnit_set(self.ver_tc_flow_label, 0, 20, as_u64(val))
    IN  [panic |-> r.panic, self |-> [self EXCEPT !.ver_tc_flow_label = r.storage]]

\* a read of the field self.next_hdr
Ipv6Hdr_next_hdr(self) == IpProto_read(self.next_hdr[1])

---------------------------------------------------------------------------
(* The buffers a caller overlays a header on, and the overlay itself *)

\* bytes with the bytes at offset .. offset + Len(new) - 1 replaced by new
WithBytes(bytes, offset, new) ==
    [i \in 1..Len(bytes) |->
        IF offset < i /\ i <= offset + Len(new) THEN new[i - offset] ELSE bytes[i]]

\* expected_header_bytes of test_v4
TestIpv4Packet ==
    <<0, 0, 0, 0, 0, 0, 0, 0, 0, 0, 0, 0, 127, 0, 0, 1, 127, 0, 0, 2>>

\* expected_header_bytes of test_v6
TestIpv6Packet ==
    <<0, 0, 0, 0, 0, 0, 0, 0, 0, 0, 0, 0, 0, 0, 0, 0, 0, 0, 0, 0,
      0, 0, 0, 0, 0, 2, 0, 0, 0, 0, 0, 0, 0, 0, 0, 0, 0, 0, 0, 1>>

\* byte values for a two-byte bitfield: every flag bit alone, the offset
\* bits, the tag 0x2064
FieldBytes16 == {\h00, \h01, \h1F, \h20, \h3F, \h40, \h64, \h80, \hFF}

\* byte values for the four leading bytes of an IPv6 packet
FieldBytes32 == {\h00, \h60, \h63, \h45, \h67, \h89}

\* where the ramps of whole-header buffers start
RampStarts == {\h00, \h01, \hA5}

\* IPv4 packets: every first byte, the two frag_off bytes from FieldBytes16,
\* every protocol byte
Ipv4Packets ==
    {WithBytes(TestIpv4Packet, 0, <<b>>) : b \in 0..255} \cup
    {WithBytes(TestIpv4Packet, 6, <<b0, b1>>) : b0, b1 \in FieldBytes16} \cup
    {WithBytes(TestIpv4Packet, 9, <<b>>) : b \in 0..255} \cup
    {Ramp(a, 20) : a \in RampStarts}

\* IPv6 packets: the four leading bytes from FieldBytes32, every next-header
\* byte
Ipv6Packets ==
    {WithBytes(TestIpv6Packet, 0, <<b0, b1, b2, b3>>) :
        b0, b1, b2, b3 \in FieldBytes32} \cup
    {WithBytes(TestIpv6Packet, 6, <<b>>) : b \in 0..255} \cup
    {Ramp(a, 40) : a \in RampStarts}

\* 802.1Q frames: the addresses of the test frame, TPID 0x8100, the two TCI
\* bytes from FieldBytes16, EtherType IPv4
VlanFrames ==
    {SubSeq(TestFrame, 1, 12) \o <<\h81, \h00, b0, b1, \h08, \h00>> :
        b0, b1 \in FieldBytes16} \cup
    {Ramp(a, 18) : a \in RampStarts}

QinQFrames == {Ramp(a, 22) : a \in RampStarts}

EthFrames == {TestFrame} \cup {Ramp(a, 14) : a \in RampStarts}

Buffers == EthFrames \cup VlanFrames \cup QinQFrames \cup Ipv4Packets \cup Ipv6Packets

\* u8, u16 and u32 arguments handed to the setters
U8Args == 0..15 \cup {16, \h45, \h54, \hF0, \hFF}
VidArgs == {100, \h1000, \hA5A5}
PcpArgs == {1, 8, \hFF}
V6Args == {6, \h34, \hFF}
FlowArgs == {0, \h56789, \hFFFFFF}

\* the header buf is viewed as
Self == transmute(FieldsOf(view), buf)

\* a buffer of exactly T::LEN bytes is reinterpreted as a T
OverlayHeader ==
    /\ view = "none" /\ buf # <<>>
    /\ \E ty \in HeaderTypes :
           /\ Len(buf) = LenOf(ty)
           /\ view' = ty
    /\ hop' = [NoHdrOp EXCEPT !.op = "overlay", !.before = buf]
    /\ wr' = [NoWrites EXCEPT !.orig = buf]
    /\ UNCHANGED buf
    /\ UNCHANGED <<host, storage, bfop, num, cvop, frame, ethhdr, ethop>>

\* a getter of the overlaid header returned res
Returned(name, res) ==
    /\ hop' = [NoHdrOp EXCEPT !.op = name, !.before = buf, !.res = res]
    /\ UNCHANGED <<buf, view, wr>>
    /\ UNCHANGED <<host, storage, bfop, num, cvop, frame, ethhdr, ethop>>

\* a setter of the overlaid header, called with arg, left r = [panic, self]:
\* the fields of self are the bytes of buf
Stored(name, arg, r) ==
    /\ buf' = as_bytes(FieldsOf(view), r.self, 1)
    /\ hop' = [NoHdrOp EXCEPT !.op = name, !.arg = arg, !.before = buf,
                              !.res = [panic |-> r.panic]]
    /\ UNCHANGED view
    /\ UNCHANGED <<host, storage, bfop, num, cvop, frame, ethhdr, ethop>>

---------------------------------------------------------------------------
(* impl VlanHdr (eth.rs) *)

\* vid(): self.tci.get(0, 12) as u16
VlanHdr_vid(self) ==
    LET r == BitfieldUnit_get(self.tci, 0, 12)
    IN  [panic |-> r.panic, val |-> as_u16(r.val)]

\* a set_vid that writes all sixteen bits of its argument
VlanHdr_set_vid_unmasked(self, val) ==
    LET r == BitfieldUnit_set(self.tci, 0, 16, as_u64(val))
    IN  [panic |-> r.panic, self |-> [self EXCEPT !.tci = r.storage]]

\* set_vid(val): self.tci.set(0, 12, val as u64)
VlanHdr_set_vid(self, val) ==
    LET r == BitfieldUnit_set(self.tci, 0, 12, as_u64(val))
    IN  [panic |-> r.panic, self |-> [self EXCEPT !.tci = r.storage]]

\* dei(): self.tci.get_bit(12)
VlanHdr_dei(self) == BitfieldUnit_get_bit(self.tci, 12)

\* set_cfi(val): self.tci.set(12, 1, if val { 1 } else { 0 } as u64)
VlanHdr_set_cfi(self, val) ==
    LET r == BitfieldUnit_set(self.tci, 12, 1, as_u64(IF val THEN 1 ELSE 0))
    IN  [panic |-> r.panic, self |-> [self EXCEPT !.tci = r.storage]]

\* pcp(): self.tci.get(13, 3) as u8
VlanHdr_pcp(self) ==
    LET r == BitfieldUnit_get(self.tci, 13, 3)
    IN  [panic |-> r.panic, val |-> as_u8(r.val)]

\* set_pcp(val): self.tci.set(13, 3, val as u64)
VlanHdr_set_pcp(self, val) ==
    LET r == BitfieldUnit_set(self.tci, 13, 3, as_u64(val))
    IN  [panic |-> r.panic, self |-> [self EXCEPT !.tci = r.storage]]

---------------------------------------------------------------------------
(* Calls on an overlaid header. A VlanHdr takes any sequence of setter     *)
(* calls and then a getter; the other headers take one call.               *)

VlanSetters == {"set_vid", "set_cfi", "set_pcp"}
VlanCallable == view = "VlanHdr" /\ hop.op \in {"overlay"} \cup VlanSetters
Ipv4Callable == view = "Ipv4Hdr" /\ hop.op = "overlay"
Ipv6Callable == view = "Ipv6Hdr" /\ hop.op = "overlay"

VlanVid == VlanCallable /\ Returned("vid", VlanHdr_vid(Self))
VlanDei == VlanCallable /\ Returned("dei", VlanHdr_dei(Self))
VlanPcp == VlanCallable /\ Returned("pcp", VlanHdr_pcp(Self))

VlanSetVid ==
    /\ VlanCallable
    /\ \E val \in VidArgs :
           /\ Stored("set_vid", <<val>>, VlanHdr_set_vid(Self, val))
           /\ wr' = [wr EXCEPT !.vid = <<val>>]

VlanSetCfi ==
    /\ VlanCallable
    /\ \E val \in BOOLEAN :
           /\ Stored("set_cfi", <<val>>, VlanHdr_set_cfi(Self, val))
           /\ wr' = [wr EXCEPT !.cfi = <<val>>]

VlanSetPcp ==
    /\ VlanCallable
    /\ \E val \in PcpArgs :
           /\ Stored("set_pcp", <<val>>, VlanHdr_set_pcp(Self, val))
           /\ wr' = [wr EXCEPT !.pcp = <<val>>]

Ipv4Ihl == Ipv4Callable /\ Returned("ihl", Ipv4Hdr_ihl(Self))
Ipv4Version == Ipv4Callable /\ Returned("version", Ipv4Hdr_version(Self))
Ipv4Hdrlen == Ipv4Callable /\ Returned("hdrlen", Ipv4Hdr_hdrlen(Self))
Ipv4DontFragment == Ipv4Callable /\ Returned("dont_fragment", Ipv4Hdr_dont_fragment(Self))
Ipv4MoreFragments == Ipv4Callable /\ Returned("more_fragments", Ipv4Hdr_more_fragments(Self))
Ipv4IsFragment == Ipv4Callable /\ Returned("is_fragment", Ipv4Hdr_is_fragment(Self))
Ipv4IsNotFirstFragment == Ipv4Callable /\ Returned("is_not_first_fragment", Ipv4Hdr_is_not_first_fragment(Self))
Ipv4HasL4Header == Ipv4Callable /\ Returned("has_l4_header", Ipv4Hdr_has_l4_header(Self))

Ipv4SetIhl ==
    /\ Ipv4Callable
    /\ \E val \in U8Args :
           /\ Stored("set_ihl", <<val>>, Ipv4Hdr_set_ihl(Self, val))
           /\ UNCHANGED wr

Ipv4SetVersion ==
    /\ Ipv4Callable
    /\ \E val \in U8Args :
           /\ Stored("set_version", <<val>>, Ipv4Hdr_set_version(Self, val))
           /\ UNCHANGED wr

\* the associated function new_bitfield_1, called with no header in hand
Ipv4NewBitfield1 ==
    /\ view = "none" /\ buf = <<>> /\ hop.op = "none"
    /\ \E ihl \in U8Args, version \in U8Args :
           hop' = [NoHdrOp EXCEPT !.op = "new_bitfield_1", !.arg = <<ihl, version>>,
                                  !.res = Ipv4Hdr_new_bitfield_1(ihl, version)]
    /\ UNCHANGED <<buf, view, wr>>
    /\ UNCHANGED <<host, storage, bfop, num, cvop, frame, ethhdr, ethop>>

\* a read of self.proto: one of the values the read can produce
Ipv4Proto ==
    /\ Ipv4Callable
    /\ \E r \in Ipv4Hdr_proto(Self) : Returned("proto", r)

Ipv6Version == Ipv6Callable /\ Returned("version", Ipv6Hdr_version(Self))
Ipv6Tc == Ipv6Callable /\ Returned("tc", Ipv6Hdr_tc(Self))
Ipv6FlowLabel == Ipv6Callable /\ Returned("flow_label", Ipv6Hdr_flow_label(Self))

Ipv6SetVersion ==
    /\ Ipv6Callable
    /\ \E val \in V6Args :
           /\ Stored("set_version", <<val>>, Ipv6Hdr_set_version(Self, val))
           /\ UNCHANGED wr

Ipv6SetTc ==
    /\ Ipv6Callable
    /\ \E val \in V6Args :
           /\ Stored("set_tc", <<val>>, Ipv6Hdr_set_tc(Self, val))
           /\ UNCHANGED wr

Ipv6SetFlowTable ==
    /\ Ipv6Callable
    /\ \E val \in FlowArgs :
           /\ Stored("set_flow_table", <<val>>, Ipv6Hdr_set_flow_table(Self, val))
           /\ UNCHANGED wr

\* a read of self.next_hdr: one of the values the read can produce
Ipv6NextHdr ==
    /\ Ipv6Callable
    /\ \E r \in Ipv6Hdr_next_hdr(Self) : Returned("next_hdr", r)

InitHdr ==
    /\ host \in Hosts
    /\ storage = <<>>
    /\ bfop = NoBfOp
    /\ num = NoNum
    /\ cvop = NoCvOp
    /\ frame = <<>>
    /\ ethhdr = NoEthHdr
    /\ ethop = NoEthOp
    /\ buf \in Buffers \cup {<<>>}
    /\ view = "none"
    /\ hop = NoHdrOp
    /\ wr = NoWrites

NextHdr ==
    \/ OverlayHeader
    \/ VlanVid \/ VlanDei \/ VlanPcp \/ VlanSetVid \/ VlanSetCfi \/ VlanSetPcp
    \/ Ipv4Ihl \/ Ipv4Version \/ Ipv4Hdrlen \/ Ipv4SetIhl \/ Ipv4SetVersion
    \/ Ipv4NewBitfield1
    \/ Ipv4DontFragment \/ Ipv4MoreFragments \/ Ipv4IsFragment
    \/ Ipv4IsNotFirstFragment \/ Ipv4HasL4Header \/ Ipv4Proto
    \/ Ipv6Version \/ Ipv6Tc \/ Ipv6FlowLabel
    \/ Ipv6SetVersion \/ Ipv6SetTc \/ Ipv6SetFlowTable \/ Ipv6NextHdr

SpecHdr == InitHdr /\ [][NextHdr]_vars

---------------------------------------------------------------------------
(* Claims about the header accessors *)

\* the outcome the specification asks for on a byte that is no IpProto code
Unrecognized == [kind |-> "unrecognized", val |-> "no variant"]

\* the two frag_off wire bytes of an IPv4 packet, as the big-endian number
\* f = 256*b0 + b1; the two TCI wire bytes of an 802.1Q frame, as t
WireFragOff(bytes) == 256 * bytes[7] + bytes[8]
WireTci(bytes) == 256 * bytes[15] + bytes[16]

\* C11: reading proto of an Ipv4Hdr or next_hdr of an Ipv6Hdr overlaid on a
\* protocol byte that is an IpProto code yields exactly the variant with that
\* code, and on any other byte (0x9F, every value in 145..=252) yields a
\* distinguishable unrecognized outcome, never a named variant.
C11_IpProtoDecodingExplicit ==
    hop.op \in {"proto", "next_hdr"} =>
        LET byte == IF hop.op = "proto" THEN hop.before[10] ELSE hop.before[7]
        IN  IF byte \in IpProtoCodes
            THEN hop.res = Variant(IpProtoOfCode(byte))
            ELSE hop.res = Unrecognized

\* C12: for a VlanHdr over TCI wire bytes (b0, b1), t = 256*b0 + b1:
\* vid() = t mod 4096, dei() = bit 12 of t, pcp() = t div 8192; so the tag
\* 0x2064 reads as vid 100, dei false, pcp 1.
C12_VlanWireFormat ==
    LET t == WireTci(hop.before)
    IN  /\ (view = "VlanHdr" /\ hop.op = "vid") =>
               ~hop.res.panic /\ Val(hop.res.val) = t % 4096
        /\ (view = "VlanHdr" /\ hop.op = "dei") =>
               ~hop.res.panic /\ hop.res.bit = ((t \div 4096) % 2 = 1)
        /\ (view = "VlanHdr" /\ hop.op = "pcp") =>
               ~hop.res.panic /\ Val(hop.res.val) = t \div 8192

\* C13: is_fragment() is true exactly when the low 14 bits of the big-endian
\* flags/offset field f = 256*b0 + b1 are nonzero: a DF-only header
\* (f = 0x4000) is no fragment, an MF-only header (f = 0x2000) is one.
C13_IsFragmentLow14Bits ==
    (view = "Ipv4Hdr" /\ hop.op = "is_fragment") =>
        /\ ~hop.res.panic
        /\ hop.res.bit = ((WireFragOff(hop.before) % 16384) # 0)

\* C14: is_not_first_fragment() is true exactly when the 13-bit offset of
\* f = 256*b0 + b1 is nonzero, and has_l4_header() is its negation: the first
\* fragment (f = 0x2000) has an upper-layer header.
C14_IsNotFirstFragmentLow13Bits ==
    LET offset_nonzero == (WireFragOff(hop.before) % 8192) # 0
    IN  /\ (view = "Ipv4Hdr" /\ hop.op = "is_not_first_fragment") =>
               ~hop.res.panic /\ hop.res.bit = offset_nonzero
        /\ (view = "Ipv4Hdr" /\ hop.op = "has_l4_header") =>
               ~hop.res.panic /\ hop.res.bit = ~offset_nonzero

\* C15: an Ipv4Hdr over flags/offset wire bytes 0x20, 0x01 has is_fragment()
\* true, is_not_first_fragment() true and has_l4_header() false; over bytes
\* 0x00, 0x00 it has is_fragment() false, is_not_first_fragment() false and
\* has_l4_header() true.
C15_FragmentScenario ==
    LET in_scenario == view = "Ipv4Hdr" /\ SubSeq(hop.before, 7, 8) = <<\h20, \h01>>
        in_zero == view = "Ipv4Hdr" /\ SubSeq(hop.before, 7, 8) = <<\h00, \h00>>
        yields(b) == ~hop.res.panic /\ hop.res.bit = b
    IN  /\ (in_scenario /\ hop.op = "is_fragment") => yields(TRUE)
        /\ (in_scenario /\ hop.op = "is_not_first_fragment") => yields(TRUE)
        /\ (in_scenario /\ hop.op = "has_l4_header") => yields(FALSE)
        /\ (in_zero /\ hop.op = "is_fragment") => yields(FALSE)
        /\ (in_zero /\ hop.op = "is_not_first_fragment") => yields(FALSE)
        /\ (in_zero /\ hop.op = "has_l4_header") => yields(TRUE)

\* has_l4_header() was called on the header with flags/offset bytes 0x20, 0x01
C15_Witness ==
    /\ view = "Ipv4Hdr" /\ hop.op = "has_l4_header"
    /\ SubSeq(hop.before, 7, 8) = <<\h20, \h01>>
    /\ hop.res.bit = FALSE

\* C16: for an Ipv6Hdr over leading wire bytes (b0, b1, b2, b3) with g their
\* big-endian value: version() = g div 2^28 (= b0 div 16), tc() =
\* (g div 2^20) mod 256 (= 16*(b0 mod 16) + b1 div 16), flow_label() =
\* g mod 2^20 (= 65536*(b1 mod 16) + 256*b2 + b3); so 0x60000000 reads as
\* (6, 0, 0) and 0x63456789 as (6, 0x34, 0x56789).
C16_Ipv6WireFormat ==
    LET b0 == hop.before[1]
        b1 == hop.before[2]
        b2 == hop.before[3]
        b3 == hop.before[4]
    IN  /\ (view = "Ipv6Hdr" /\ hop.op = "version") =>
               ~hop.res.panic /\ Val(hop.res.val) = b0 \div 16
        /\ (view = "Ipv6Hdr" /\ hop.op = "tc") =>
               ~hop.res.panic /\ Val(hop.res.val) = 16 * (b0 % 16) + b1 \div 16
        /\ (view = "Ipv6Hdr" /\ hop.op = "flow_label") =>
               /\ ~hop.res.panic
               /\ Val(hop.res.val) = 65536 * (b1 % 16) + 256 * b2 + b3

\* the protocol's header length, and its fields as <<name, offset, size>>
ProtocolLen(ty) ==
    CASE ty = "EthHdr" -> 14
      [] ty = "VlanHdr" -> 18
      [] ty = "QinQHdr" -> 22
      [] ty = "Ipv4Hdr" -> 20
      [] ty = "Ipv6Hdr" -> 40

ProtocolLayout(ty) ==
    CASE ty = "EthHdr" ->
             {<<"dst_addr", 0, 6>>, <<"src_addr", 6, 6>>, <<"ether_type", 12, 2>>}
      [] ty = "VlanHdr" ->
             {<<"dst_addr", 0, 6>>, <<"src_addr", 6, 6>>, <<"tpid", 12, 2>>,
              <<"tci", 14, 2>>, <<"ether_type", 16, 2>>}
      [] ty = "QinQHdr" ->
             {<<"dst_addr", 0, 6>>, <<"src_addr", 6, 6>>, <<"service_tpid", 12, 2>>,
              <<"etci", 14, 2>>, <<"tpid", 16, 2>>, <<"tci", 18, 2>>,
              <<"ether_type", 20, 2>>}
      [] ty = "Ipv4Hdr" ->
             {<<"_bitfield_1", 0, 1>>, <<"tos", 1, 1>>, <<"tot_len", 2, 2>>,
              <<"id", 4, 2>>, <<"frag_off", 6, 2>>, <<"ttl", 8, 1>>,
              <<"proto", 9, 1>>, <<"check", 10, 2>>, <<"src_addr", 12, 4>>,
              <<"dst_addr", 16, 4>>}
      [] ty = "Ipv6Hdr" ->
             {<<"ver_tc_flow_label", 0, 4>>, <<"payload_len", 4, 2>>,
              <<"next_hdr", 6, 1>>, <<"hop_limit", 7, 1>>, <<"src_addr", 8, 16>>,
              <<"dst_addr", 24, 16>>}

\* the LEN constants are the protocols' header lengths
LensAreProtocolLens ==
    /\ EthHdr_LEN = 14 /\ VlanHdr_LEN = 18 /\ QinQHdr_LEN = 22
    /\ Ipv4Hdr_LEN = 20 /\ Ipv6Hdr_LEN = 40

\* C17: every header overlay has exactly its protocol's length (EthHdr 14,
\* VlanHdr 18, QinQHdr 22, Ipv4Hdr 20, Ipv6Hdr 40), the sum of its fields'
\* sizes, with no padding: each field of an overlaid header is the bytes of
\* the buffer at the sum of the sizes of the fields before it, and the fields
\* together are the whole buffer.
C17_NoPaddingExactLength ==
    /\ LensAreProtocolLens
    /\ hop.op = "overlay" =>
           /\ Len(buf) = ProtocolLen(view)
           /\ LenOf(view) = ProtocolLen(view)
           /\ DOMAIN Self = {f[1] : f \in ProtocolLayout(view)}
           /\ \A f \in ProtocolLayout(view) :
                  /\ \E i \in 1..Len(FieldsOf(view)) :
                         /\ FieldsOf(view)[i].name = f[1]
                         /\ FieldsOf(view)[i].size = f[3]
                         /\ FieldOffset(FieldsOf(view), i) = f[2]
                  /\ Self[f[1]] = SubSeq(buf, f[2] + 1, f[2] + f[3])
           /\ as_bytes(FieldsOf(view), Self, 1) = buf

\* a VlanHdr was overlaid on 18 bytes that all differ from their neighbours
C17_Witness ==
    /\ hop.op = "overlay" /\ view = "VlanHdr"
    /\ buf = Ramp(\hA5, 18)
    /\ Self.tci = SubSeq(buf, 15, 16)

\* what each getter of a VlanHdr must return after the setter calls so far
LastWrittenVid ==
    IF wr.vid = <<>> THEN Val(VlanHdr_vid(transmute(VlanHdrFields, wr.orig)).val)
    ELSE wr.vid[1] % 4096
LastWrittenCfi ==
    IF wr.cfi = <<>> THEN VlanHdr_dei(transmute(VlanHdrFields, wr.orig)).bit
    ELSE wr.cfi[1]
LastWrittenPcp ==
    IF wr.pcp = <<>> THEN Val(VlanHdr_pcp(transmute(VlanHdrFields, wr.orig)).val)
    ELSE wr.pcp[1] % 8

\* C18: after any sequence of set_vid(x), set_cfi(b), set_pcp(y) calls on a
\* VlanHdr, with any arguments (x > 0xFFF and y > 7 included), vid() is the
\* most recent x mod 4096, dei() the most recent b, pcp() the most recent
\* y mod 8, or the field's initial value if its setter was never called; no
\* call fails, and dst_addr, src_addr, tpid and ether_type stay as they were.
C18_VlanSettersLastWriteWins ==
    view = "VlanHdr" =>
        /\ hop.op = "vid" => ~hop.res.panic /\ Val(hop.res.val) = LastWrittenVid
        /\ hop.op = "dei" => ~hop.res.panic /\ hop.res.bit = LastWrittenCfi
        /\ hop.op = "pcp" => ~hop.res.panic /\ Val(hop.res.val) = LastWrittenPcp
        /\ hop.op \in VlanSetters => ~hop.res.panic
        /\ Len(buf) = Len(wr.orig)
        /\ SubSeq(buf, 1, 14) = SubSeq(wr.orig, 1, 14)
        /\ SubSeq(buf, 17, 18) = SubSeq(wr.orig, 17, 18)

\* pcp() was read after set_pcp(0xFF), set_cfi(true) and a later
\* set_vid(0xA5A5) on a header whose tag was 0x2064
C18_Witness ==
    /\ view = "VlanHdr" /\ hop.op = "pcp"
    /\ SubSeq(wr.orig, 15, 16) = <<\h20, \h64>>
    /\ wr.vid = <<\hA5A5>> /\ wr.cfi = <<TRUE>> /\ wr.pcp = <<\hFF>>
    /\ Val(hop.res.val) = 7

\* C19: on every content of the two frag_off bytes, more_fragments() true
\* implies is_fragment() true, and a header in which dont_fragment() is the
\* only flag/offset bit set has is_fragment() false.
C19_FlagsAgreeWithClassification ==
    LET self == transmute(Ipv4HdrFields, hop.before)
        only_df == /\ Ipv4Hdr_dont_fragment(self).bit
                   /\ \A i \in 0..14 : ~BitfieldUnit_get_bit(self.frag_off, i).bit
    IN  /\ (view = "Ipv4Hdr" /\ hop.op = "more_fragments" /\ hop.res.bit) =>
               Ipv4Hdr_is_fragment(self).bit
        /\ (view = "Ipv4Hdr" /\ hop.op = "is_fragment" /\ only_df) =>
               ~hop.res.bit

\* C20: for an Ipv4Hdr whose first wire byte is b: version() = b div 16,
\* ihl() = b mod 16, hdrlen() = 4 * ihl() (one of 0, 4, ..., 60);
\* new_bitfield_1(ihl, version) is the byte 16*(version mod 16) + ihl mod 16;
\* set_ihl and set_version store their argument's low four bits and leave
\* the other nibble as it was.
C20_VersionIhlNibbles ==
    LET b == hop.before[1]
    IN  /\ (view = "Ipv4Hdr" /\ hop.op = "version") =>
               ~hop.res.panic /\ Val(hop.res.val) = b \div 16
        /\ (view = "Ipv4Hdr" /\ hop.op = "ihl") =>
               ~hop.res.panic /\ Val(hop.res.val) = b % 16
        /\ (view = "Ipv4Hdr" /\ hop.op = "hdrlen") =>
               /\ ~hop.res.panic
               /\ Val(hop.res.val) = 4 * (b % 16)
               /\ Val(hop.res.val) \in {4 * k : k \in 0..15}
        /\ hop.op = "new_bitfield_1" =>
               /\ ~hop.res.panic
               /\ hop.res.storage = <<16 * (hop.arg[2] % 16) + (hop.arg[1] % 16)>>
        /\ (view = "Ipv4Hdr" /\ hop.op = "set_ihl") =>
               /\ ~hop.res.panic
               /\ buf = WithBytes(hop.before, 0, <<16 * (b \div 16) + (hop.arg[1] % 16)>>)
        /\ (view = "Ipv4Hdr" /\ hop.op = "set_version") =>
               /\ ~hop.res.panic
               /\ buf = WithBytes(hop.before, 0, <<16 * (hop.arg[1] % 16) + (b % 16)>>)

\* set_version(0xF0) was called on a header whose first byte was 0x45
C20_Witness ==
    /\ view = "Ipv4Hdr" /\ hop.op = "set_version"
    /\ hop.before[1] = \h45 /\ hop.arg = <<\hF0>>
    /\ buf[1] = \h05

---------------------------------------------------------------------------
(* struct Ipv4HdrOptionType (ip/v4.rs): the option-type octet of an IPv4   *)
(* option, a BitfieldUnit<[u8; 1]>                                         *)

\* new(value): octets: BitfieldUnit::new([value])
Ipv4HdrOptionType_new(value) == [octets |-> BitfieldUnit_new(<<value>>)]

\* copied_flag(): self.octets.get_bit(7)
Ipv4HdrOptionType_copied_flag(self) == BitfieldUnit_get_bit(self.octets, 7)

\* an option_class that takes the copied flag for its high bit
Ipv4HdrOptionType_option_class_with_flag(self) ==
    LET r == BitfieldUnit_get(self.octets, 6, 2)
    IN  [panic |-> r.panic, val |-> as_u8(r.val)]

\* option_class(): self.octets.get(5, 2) as u8
Ipv4HdrOptionType_option_class(self) ==
    LET r == BitfieldUnit_get(self.octets, 5, 2)
    IN  [panic |-> r.panic, val |-> as_u8(r.val)]

\* option_number(): self.octets.get(0, 5) as u8
Ipv4HdrOptionType_option_number(self) ==
    LET r == BitfieldUnit_get(self.octets, 0, 5)
    IN  [panic |-> r.panic, val |-> as_u8(r.val)]

\* self.option_number() == number && self.option_class() == class: the
\* class is read only if the number matches
option_is(self, number, class) ==
    LET n == Ipv4HdrOptionType_option_number(self)
        c == Ipv4HdrOptionType_option_class(self)
    IN  IF n.panic THEN [panic |-> Panicked, bit |-> FALSE]
        ELSE IF Val(n.val) # number THEN [panic |-> NoPanic, bit |-> FALSE]
        ELSE [panic |-> c.panic, bit |-> ~c.panic /\ Val(c.val) = class]

Ipv4HdrOptionType_is_end_of_option_list(self) == option_is(self, 0, 0)
Ipv4HdrOptionType_is_no_operation(self) == option_is(self, 1, 0)
Ipv4HdrOptionType_is_security(self) == option_is(self, 2, 0)
Ipv4HdrOptionType_is_loose_source_routing(self) == option_is(self, 3, 0)
Ipv4HdrOptionType_is_strict_source_routing(self) == option_is(self, 9, 0)
Ipv4HdrOptionType_is_record_route(self) == option_is(self, 7, 0)
Ipv4HdrOptionType_is_stream_id(self) == option_is(self, 8, 0)
Ipv4HdrOptionType_is_internet_timestamp(self) == option_is(self, 4, 2)

\* the option type in hand
OptSelf == [octets |-> buf]
OptCallable == view = "Ipv4HdrOptionType" /\ hop.op = "new"

\* Ipv4HdrOptionType::new(value), for every byte
OptNew ==
    /\ view = "none" /\ buf = <<>> /\ hop.op = "none"
    /\ \E value \in 0..255 :
           /\ buf' = Ipv4HdrOptionType_new(value).octets
           /\ hop' = [NoHdrOp EXCEPT !.op = "new", !.arg = <<value>>]
    /\ view' = "Ipv4HdrOptionType"
    /\ UNCHANGED wr
    /\ UNCHANGED <<host, storage, bfop, num, cvop, frame, ethhdr, ethop>>

OptCopiedFlag ==
    OptCallable /\ Returned("copied_flag", Ipv4HdrOptionType_copied_flag(OptSelf))
OptOptionClass ==
    OptCallable /\ Returned("option_class", Ipv4HdrOptionType_option_class(OptSelf))
OptOptionNumber ==
    OptCallable /\ Returned("option_number", Ipv4HdrOptionType_option_number(OptSelf))
OptIsEndOfOptionList ==
    OptCallable /\ Returned("is_end_of_option_list", Ipv4HdrOptionType_is_end_of_option_list(OptSelf))
OptIsNoOperation ==
    OptCallable /\ Returned("is_no_operation", Ipv4HdrOptionType_is_no_operation(OptSelf))
OptIsSecurity ==
    OptCallable /\ Returned("is_security", Ipv4HdrOptionType_is_security(OptSelf))
OptIsLooseSourceRouting ==
    OptCallable /\ Returned("is_loose_source_routing", Ipv4HdrOptionType_is_loose_source_routing(OptSelf))
OptIsStrictSourceRouting ==
    OptCallable /\ Returned("is_strict_source_routing", Ipv4HdrOptionType_is_strict_source_routing(OptSelf))
OptIsRecordRoute ==
    OptCallable /\ Returned("is_record_route", Ipv4HdrOptionType_is_record_route(OptSelf))
OptIsStreamId ==
    OptCallable /\ Returned("is_stream_id", Ipv4HdrOptionType_is_stream_id(OptSelf))
OptIsInternetTimestamp ==
    OptCallable /\ Returned("is_internet_timestamp", Ipv4HdrOptionType_is_internet_timestamp(OptSelf))

InitOpt ==
    /\ host \in Hosts
    /\ storage = <<>>
    /\ bfop = NoBfOp
    /\ num = NoNum
    /\ cvop = NoCvOp
    /\ frame = <<>>
    /\ ethhdr = NoEthHdr
    /\ ethop = NoEthOp
    /\ buf = <<>>
    /\ view = "none"
    /\ hop = NoHdrOp
    /\ wr = NoWrites

NextOpt ==
    \/ OptNew \/ OptCopiedFlag \/ OptOptionClass \/ OptOptionNumber
    \/ OptIsEndOfOptionList \/ OptIsNoOperation \/ OptIsSecurity \/ OptIsLooseSourceRouting
    \/ OptIsStrictSourceRouting \/ OptIsRecordRoute \/ OptIsStreamId \/ OptIsInternetTimestamp

SpecOpt == InitOpt /\ [][NextOpt]_vars

OptPredicates ==
    {"is_end_of_option_list", "is_no_operation", "is_security",
     "is_loose_source_routing", "is_strict_source_routing", "is_record_route",
     "is_stream_id", "is_internet_timestamp"}

\* the predicate called name, on self
OptPredicate(name, self) ==
    CASE name = "is_end_of_option_list" -> Ipv4HdrOptionType_is_end_of_option_list(self)
      [] name = "is_no_operation" -> Ipv4HdrOptionType_is_no_operation(self)
      [] name = "is_security" -> Ipv4HdrOptionType_is_security(self)
      [] name = "is_loose_source_routing" -> Ipv4HdrOptionType_is_loose_source_routing(self)
      [] name = "is_strict_source_routing" -> Ipv4HdrOptionType_is_strict_source_routing(self)
      [] name = "is_record_route" -> Ipv4HdrOptionType_is_record_route(self)
      [] name = "is_stream_id" -> Ipv4HdrOptionType_is_stream_id(self)
      [] name = "is_internet_timestamp" -> Ipv4HdrOptionType_is_internet_timestamp(self)

\* C21: for every byte v, Ipv4HdrOptionType::new(v) has copied_flag() =
\* (v >= 128), option_class() = (v div 32) mod 4, option_number() = v mod 32
\* (so v = 128*copied + 32*class + number); at most one of the eight is_*
\* predicates is true for v, and each gives the same answer for v with the
\* copied flag flipped.
C21_OptionTypeDecomposition ==
    LET v == hop.before[1]
        self == [octets |-> hop.before]
        flipped == Ipv4HdrOptionType_new((v + 128) % 256)
    IN  /\ hop.op = "new" => buf = <<hop.arg[1]>>
        /\ hop.op = "copied_flag" => ~hop.res.panic /\ hop.res.bit = (v >= 128)
        /\ hop.op = "option_class" =>
               ~hop.res.panic /\ Val(hop.res.val) = (v \div 32) % 4
        /\ hop.op = "option_number" => ~hop.res.panic /\ Val(hop.res.val) = v % 32
        /\ hop.op = "option_number" =>
               v = 128 * (IF Ipv4HdrOptionType_copied_flag(self).bit THEN 1 ELSE 0)
                   + 32 * Val(Ipv4HdrOptionType_option_class(self).val)
                   + Val(hop.res.val)
        /\ hop.op \in OptPredicates =>
               /\ ~hop.res.panic
               /\ hop.res = OptPredicate(hop.op, self)
               /\ hop.res.bit =>
                      \A p \in OptPredicates \ {hop.op} : ~OptPredicate(p, self).bit
               /\ hop.res.bit = OptPredicate(hop.op, flipped).bit

\* is_internet_timestamp() was called on new(0xC4): copied, class 2, number 4
C21_Witness ==
    /\ view = "Ipv4HdrOptionType" /\ hop.op = "is_internet_timestamp"
    /\ hop.before = <<\hC4>>
    /\ hop.res.bit

---------------------------------------------------------------------------
(* The address fields of Ipv4Hdr and Ipv6Hdr: core::net::Ipv4Addr and      *)
(* Ipv6Addr hold their octets in network order; the tests of ip/v4.rs and  *)
(* ip/v6.rs read them through an overlay and write them through a pointer. *)

\* Ipv4Addr::new(a, b, c, d): the octets [a, b, c, d]
Ipv4Addr_new(a, b, c, d) == <<a, b, c, d>>

\* Ipv6Addr::new(a, ..., h): the eight segments, each as its big-endian bytes
Ipv6Addr_new(a, b, c, d, e, f, g, h, hst) ==
    to_be_bytes(Bits(a), 2, hst) \o to_be_bytes(Bits(b), 2, hst) \o
    to_be_bytes(Bits(c), 2, hst) \o to_be_bytes(Bits(d), 2, hst) \o
    to_be_bytes(Bits(e), 2, hst) \o to_be_bytes(Bits(f), 2, hst) \o
    to_be_bytes(Bits(g), 2, hst) \o to_be_bytes(Bits(h), 2, hst)

\* the addresses the tests use, and two with no byte repeated
Ipv4AddrArgs ==
    {Ipv4Addr_new(127, 0, 0, 1), Ipv4Addr_new(127, 0, 0, 2),
     Ipv4Addr_new(192, 168, 1, 2)}
Ipv6AddrArgs ==
    {Ipv6Addr_new(0, 0, 0, 0, 0, 0, 0, 0, host),
     Ipv6Addr_new(2, 0, 0, 0, 0, 0, 0, 1, host),
     Ipv6Addr_new(\h2001, \h0DB8, \h1234, \h5678, \h9ABC, \hDEF0, \h0102, \h0304, host)}
AddrArgs == IF view = "Ipv4Hdr" THEN Ipv4AddrArgs ELSE Ipv6AddrArgs

\* let mut header_bytes = [0u8; 40] of test_v6, and its IPv4 counterpart
ZeroBytes(n) == [i \in 1..n |-> 0]

\* the buffers the address fields are read from and written to
AddrBuffers ==
    {TestIpv4Packet, TestIpv6Packet, ZeroBytes(20), ZeroBytes(40)} \cup
    {Ramp(a, 20) : a \in RampStarts} \cup {Ramp(a, 40) : a \in RampStarts}

AddrWrites == {"write src_addr", "write dst_addr"}
AddrCallable ==
    /\ view \in {"Ipv4Hdr", "Ipv6Hdr"}
    /\ hop.op \in {"overlay"} \cup AddrWrites

\* a read of header.src_addr / header.dst_addr
ReadSrcAddr == AddrCallable /\ Returned("src_addr", Self.src_addr)
ReadDstAddr == AddrCallable /\ Returned("dst_addr", Self.dst_addr)

\* (*header).src_addr = addr through a pointer to the buffer
WriteSrcAddr ==
    /\ AddrCallable
    /\ \E addr \in AddrArgs :
           /\ Stored("write src_addr", <<addr>>,
                     [panic |-> NoPanic, self |-> [Self EXCEPT !.src_addr = addr]])
           /\ wr' = [wr EXCEPT !.src_addr = <<addr>>]

\* (*header).dst_addr = addr through a pointer to the buffer
WriteDstAddr ==
    /\ AddrCallable
    /\ \E addr \in AddrArgs :
           /\ Stored("write dst_addr", <<addr>>,
                     [panic |-> NoPanic, self |-> [Self EXCEPT !.dst_addr = addr]])
           /\ wr' = [wr EXCEPT !.dst_addr = <<addr>>]

InitAddr ==
    /\ host \in Hosts
    /\ storage = <<>>
    /\ bfop = NoBfOp
    /\ num = NoNum
    /\ cvop = NoCvOp
    /\ frame = <<>>
    /\ ethhdr = NoEthHdr
    /\ ethop = NoEthOp
    /\ buf \in AddrBuffers
    /\ view = "none"
    /\ hop = NoHdrOp
    /\ wr = NoWrites

NextAddr == OverlayHeader \/ ReadSrcAddr \/ ReadDstAddr \/ WriteSrcAddr \/ WriteDstAddr

SpecAddr == InitAddr /\ [][NextAddr]_vars

\* where the protocol puts the source address: <<offset, size>>
WireSrcAddr == IF view = "Ipv4Hdr" THEN <<12, 4>> ELSE <<8, 16>>
WireDstAddr == IF view = "Ipv4Hdr" THEN <<16, 4>> ELSE <<24, 16>>
WireRange(bytes, r) == SubSeq(bytes, r[1] + 1, r[1] + r[2])

\* C22: an Ipv4Hdr over B has src_addr = B[12..16] and dst_addr = B[16..20],
\* an Ipv6Hdr has src_addr = B[8..24] and dst_addr = B[24..40]; a write of
\* src_addr or dst_addr through the overlay changes those bytes of the buffer
\* and no others, and a later read returns the address last written.
C22_AddressesOverlayAndWriteThrough ==
    view \in {"Ipv4Hdr", "Ipv6Hdr"} =>
        /\ hop.op = "src_addr" =>
               /\ hop.res = WireRange(hop.before, WireSrcAddr)
               /\ wr.src_addr # <<>> => hop.res = wr.src_addr[1]
        /\ hop.op = "dst_addr" =>
               /\ hop.res = WireRange(hop.before, WireDstAddr)
               /\ wr.dst_addr # <<>> => hop.res = wr.dst_addr[1]
        /\ hop.op = "write src_addr" =>
               buf = WithBytes(hop.before, WireSrcAddr[1], hop.arg[1])
        /\ hop.op = "write dst_addr" =>
               buf = WithBytes(hop.before, WireDstAddr[1], hop.arg[1])
        /\ hop.op \in AddrWrites \cup {"src_addr", "dst_addr"} =>
               /\ Len(buf) = Len(wr.orig)
               /\ \A i \in 1..Len(buf) :
                      (i <= WireSrcAddr[1] \/ i > WireDstAddr[1] + WireDstAddr[2])
                          => buf[i] = wr.orig[i]

\* test_v6: after src_addr = :: and dst_addr = 2::1 were written into forty
\* zero bytes, the buffer is expected_header_bytes and dst_addr reads back
C22_Witness ==
    /\ view = "Ipv6Hdr" /\ hop.op = "dst_addr"
    /\ wr.orig = ZeroBytes(40)
    /\ wr.src_addr # <<>> /\ wr.dst_addr # <<>>
    /\ buf = TestIpv6Packet
    /\ hop.res = SubSeq(TestIpv6Packet, 25, 40)

---------------------------------------------------------------------------
(* trait UnsignedInteger and struct NetEndian<T> (ne.rs). A NetEndian is   *)
(* [ty, size, inner]: size the bytes of T, inner the field self.0.         *)

\* the sizes of u16, u32, u64, u128
UnsignedIntegerSizes == {2, 4, 8, 16}

\* UnsignedInteger::swap for u16 / u32 / u64 / u128: self.swap_bytes()
UnsignedInteger_swap(t, n) == swap_bytes(t, n)

\* a get that hands out the stored value as it is
NetEndian_get_no_swap(self) == self.inner

\* NetEndian::get(&self): self.0.swap()
NetEndian_get(self) == UnsignedInteger_swap(self.inner, self.size)

\* NetEndian::set(&mut self, t): self.0 = t.swap()
NetEndian_set(self, t) == [self EXCEPT !.inner = UnsignedInteger_swap(t, self.size)]

\* the number whose little-endian bytes are bytes, as a word
WordOfBytes(bytes) == UNION {Shl(Bits(bytes[k]), 8 * (k - 1)) : k \in 1..Len(bytes)}

\* values of n bytes: zero (the Default), one, all ones, the top bit alone,
\* and values with no two neighbouring bytes alike
IntegerSamples(n) ==
    {{}, {0}, 0..(8 * n - 1), {8 * n - 1}} \cup
    {WordOfBytes(Ramp(a, n)) : a \in RampStarts}

\* NetEndian::set(t) on the NetEndian in hand
NetSet ==
    /\ num.ty = "NetEndian" /\ cvop.op = "none"
    /\ \E t \in IntegerSamples(num.size) :
           /\ num' = NetEndian_set(num, t)
           /\ cvop' = [NoCvOp EXCEPT !.op = "set", !.ty = "NetEndian", !.arg = <<t>>]
    /\ UNCHANGED <<host, storage, bfop, frame, ethhdr, ethop>>
    /\ UNCHANGED <<buf, view, hop, wr>>

\* NetEndian::get() on the NetEndian in hand; arg keeps the argument of the
\* set before it, if there was one
NetGet ==
    /\ num.ty = "NetEndian" /\ cvop.op \in {"none", "set"}
    /\ cvop' = [NoCvOp EXCEPT !.op = "get", !.ty = "NetEndian", !.arg = cvop.arg,
                              !.bits = NetEndian_get(num)]
    /\ UNCHANGED <<host, storage, bfop, num, frame, ethhdr, ethop>>
    /\ UNCHANGED <<buf, view, hop, wr>>

\* t.swap() on a value of the size of the NetEndian in hand
Swap ==
    /\ num.ty = "NetEndian" /\ cvop.op = "none"
    /\ \E t \in IntegerSamples(num.size) :
           cvop' = [NoCvOp EXCEPT !.op = "swap", !.ty = "NetEndian", !.arg = <<t>>,
                                  !.bits = UnsignedInteger_swap(t, num.size)]
    /\ UNCHANGED <<host, storage, bfop, num, frame, ethhdr, ethop>>
    /\ UNCHANGED <<buf, view, hop, wr>>

\* a NetEndian<T> of any of the four sizes, holding any stored value
InitNet ==
    /\ host \in Hosts
    /\ storage = <<>>
    /\ bfop = NoBfOp
    /\ \E n \in UnsignedIntegerSizes :
           num \in {[ty |-> "NetEndian", size |-> n, inner |-> s] :
                       s \in IntegerSamples(n)}
    /\ cvop = NoCvOp
    /\ frame = <<>>
    /\ ethhdr = NoEthHdr
    /\ ethop = NoEthOp
    /\ buf = <<>>
    /\ view = "none"
    /\ hop = NoHdrOp
    /\ wr = NoWrites

NextNet == NetSet \/ NetGet \/ Swap

SpecNet == InitNet /\ [][NextNet]_vars

\* the value of n bytes with the bytes of w in the opposite order
ByteReversal(w, n) == {8 * (n - 1 - (j \div 8)) + (j % 8) : j \in w}

\* C23: for T in {u16, u32, u64, u128} and every t, get() after set(t)
\* returns t; swap(swap(t)) = t; after set(t) the stored inner value is the
\* byte-reversal of t, and get() on a NetEndian storing s returns the
\* byte-reversal of s.
C23_NetEndianRoundTrip ==
    num.ty = "NetEndian" =>
        /\ cvop.op = "set" =>
               /\ num.inner = ByteReversal(cvop.arg[1], num.size)
               /\ NetEndian_get(num) = cvop.arg[1]
        /\ cvop.op = "get" =>
               /\ cvop.bits = ByteReversal(num.inner, num.size)
               /\ cvop.arg # <<>> => cvop.bits = cvop.arg[1]
        /\ cvop.op = "swap" =>
               /\ cvop.bits = ByteReversal(cvop.arg[1], num.size)
               /\ UnsignedInteger_swap(cvop.bits, num.size) = cvop.arg[1]

\* get() returned the u128 just set, a value no byte reversal leaves alone
C23_Witness ==
    /\ num.ty = "NetEndian" /\ num.size = 16
    /\ cvop.op = "get" /\ cvop.arg = <<WordOfBytes(Ramp(\hA5, 16))>>
    /\ cvop.bits = cvop.arg[1]
    /\ num.inner # cvop.bits

=============================================================================
